---- MODULE Spec2Model ----
(***************************************************************************)
(* A model of the Monte Carlo simulation driver of OPGEE                   *)
(* (opgee/mcs/simulation.py): the distribution registry, the simulation    *)
(* directory, the trial-data generator and the trial runner.               *)
(*                                                                         *)
(* Conventions.  An optional value (Python None or a value) is a sequence  *)
(* of length 0 or 1.  A parameter name 'CLASS.ATTR' is the sequence of its *)
(* dot-separated parts, so that splitting and joining are real operations. *)
(* Quantities are integers in units of 10^-4.                              *)
(***************************************************************************)
EXTENDS Integers, Sequences, FiniteSets, TLC

VARIABLES
    instances,   \* Distribution.instances: the registry, in insertion order
    rng,         \* the sampler's random state: the number of tables drawn so far
    disk,        \* the simulation directory sim_dir
    sim,         \* the Simulation object the caller holds, if any
    rf,          \* the activation of Simulation.run_field
    last,        \* the last call made on the API: its arguments and how it ended
    model_files, \* the merged content of the model files the caller passes to new()
    calls,       \* the number of API calls made so far
    log,         \* the registrations made so far, oldest first: <<name, rv>>
    ra           \* the activation of Simulation.run

vars == <<instances, rng, disk, sim, rf, last, model_files, calls, log, ra>>

----------------------------------------------------------------------------
(* Bounds of the model *)

\* the largest trial count requested at creation or opening
MaxTrials == 2
\* the number of calls made on a simulation directory in one behaviour
MaxCalls == 2
\* the number of run_field calls made on a simulation in one behaviour
MaxRuns == 3
\* the number of (field, analysis) pairs save_results is given
MaxPairs == 3

----------------------------------------------------------------------------
(* Optional values and small helpers *)

None == <<>>
Some(x) == <<x>>
IsSome(o) == Len(o) > 0
Get(o) == o[1]

Range(s) == {s[i] : i \in DOMAIN s}

SeqSum(s) ==
    LET RECURSIVE sum(_)
        sum(i) == IF i = 0 THEN 0 ELSE s[i] + sum(i - 1)
    IN sum(Len(s))

\* [x for x in s if x in keep], order kept
FilterSeq(s, keep) == SelectSeq(s, LAMBDA x : x \in keep)

\* the positions of s holding x
Positions(s, x) == {i \in DOMAIN s : s[i] = x}

\* F applied to the value of e, which is computed once
Bind(e, F(_)) == CHOOSE out \in {F(x) : x \in {e}} : TRUE

----------------------------------------------------------------------------
(* File names and other program constants *)

TRIAL_DATA_CSV == "trial_data.csv"
RESULTS_CSV == "results.csv"
FAILURES_CSV == "failures.csv"
MODEL_FILE == "merged_model.xml"
META_DATA_FILE == "metadata.json"
DEFAULT_DIGITS == 3

\* one unit of the last digit magnitude() keeps, in units of 10^-4
RoundUnit == 10

\* round(quantity.m, digits): to the nearest multiple of 10^-digits, ties to even
magnitude(q) ==
    LET lo == (q \div RoundUnit) * RoundUnit
        r == q - lo
    IN IF 2 * r < RoundUnit THEN lo
       ELSE IF 2 * r > RoundUnit THEN lo + RoundUnit
       ELSE IF (lo \div RoundUnit) % 2 = 0 THEN lo ELSE lo + RoundUnit

----------------------------------------------------------------------------
(* The model definition: merged XML, and the graph instantiated from it *)

FieldNames == <<"F1", "F2">>
AllFields == Range(FieldNames)
AnalysisName == "ana"
Categories == {"Combustion", "Land-use", "Venting", "Flaring", "Fugitives", "Other"}

Attr(v, e) == [value |-> v, explicit |-> e]

\* a <Field> element: A and B are field attributes; a process of class Proc
\* with attribute X is present when hasProc
FieldElt(aExp, bExp, hasProc, on) ==
    [enabled |-> on,
     attrs |-> [n \in {"A", "B"} |->
                  IF n = "A" THEN Attr(IF aExp THEN 5000 ELSE 0, aExp)
                             ELSE Attr(IF bExp THEN 6000 ELSE 0, bExp)],
     procs |-> [c \in (IF hasProc THEN {"Proc"} ELSE {}) |->
                  [n \in {"X"} |-> Attr(0, FALSE)]]]

\* the merged model files Simulation.new may be given
XmlFree ==
    [analysis |-> [name |-> AnalysisName, attrs |-> [n \in {"G"} |-> Attr(0, FALSE)],
                   fields |-> FieldNames],
     fields |-> [f \in AllFields |-> FieldElt(FALSE, FALSE, f = "F1", TRUE)]]

XmlPinned ==
    [analysis |-> [name |-> AnalysisName, attrs |-> [n \in {"G"} |-> Attr(0, FALSE)],
                   fields |-> FieldNames],
     fields |-> [f \in AllFields |->
                   IF f = "F1" THEN FieldElt(TRUE, FALSE, TRUE, TRUE)
                               ELSE FieldElt(FALSE, FALSE, TRUE, TRUE)]]

XmlAllPinned ==
    [analysis |-> [name |-> AnalysisName, attrs |-> [n \in {"G"} |-> Attr(0, FALSE)],
                   fields |-> FieldNames],
     fields |-> [f \in AllFields |->
                   IF f = "F1" THEN FieldElt(FALSE, FALSE, TRUE, TRUE)
                               ELSE FieldElt(TRUE, TRUE, TRUE, TRUE)]]

ModelFiles == {XmlFree, XmlPinned, XmlAllPinned}

\* a Field of a freshly instantiated model: nothing computed yet
FreshField(elt) ==
    [enabled |-> elt.enabled, attrs |-> elt.attrs, procs |-> elt.procs,
     carbon_intensity |-> None,
     emissions |-> [c \in Categories |-> 0]]

\* ModelFile(xml_string=..., analysis_names=[analysis_name], field_names=...)
\* and Model.from_xml: only the named fields are instantiated (all of them when
\* field_names is None or empty), the analysis is restricted to them, and a
\* CommandlineError is raised when no named field or no named analysis exists.
ModelFileLoad(xml, analysis_name, field_names) ==
    LET wanted == IF IsSome(field_names) /\ Len(Get(field_names)) > 0
                  THEN Range(Get(field_names)) ELSE AllFields
        kept == wanted \cap DOMAIN xml.fields
    IN IF kept = {} \/ xml.analysis.name # analysis_name
       THEN [err |-> "CommandlineError", model |-> None]
       ELSE [err |-> "",
             model |-> Some(
               [analysis |-> [name |-> xml.analysis.name,
                              attrs |-> xml.analysis.attrs,
                              fields |-> FilterSeq(xml.analysis.fields, kept)],
                fields |-> [f \in kept |-> FreshField(xml.fields[f])]])]

----------------------------------------------------------------------------
(* Parameter names *)

BadName(n) == Len(n) = 0 \/ Len(n) > 2

\* split_attr_name: 'ATTR' is the same as 'Field.ATTR'
split_attr_name(full_name) ==
    IF Len(full_name) = 1 THEN <<"Field", full_name[1]>>
    ELSE <<full_name[1], full_name[2]>>

\* Simulation.lookup(full_name, field): the owner and attribute a name
\* resolves to in `model`, or the McsUserError it raises
lookup(model, full_name, field) ==
    IF BadName(full_name) THEN [err |-> "OpgeeException", owner |-> "", attr |-> ""]
    ELSE
    LET class_name == split_attr_name(full_name)[1]
        attr_name == split_attr_name(full_name)[2]
        fld == model.fields[field]
    IN IF class_name = "Field"
       THEN IF attr_name \in DOMAIN fld.attrs
            THEN [err |-> "", owner |-> "Field", attr |-> attr_name]
            ELSE [err |-> "McsUserError", owner |-> "", attr |-> ""]
       ELSE IF class_name = "Analysis"
       THEN IF attr_name \in DOMAIN model.analysis.attrs
            THEN [err |-> "", owner |-> "Analysis", attr |-> attr_name]
            ELSE [err |-> "McsUserError", owner |-> "", attr |-> ""]
       ELSE IF class_name \notin DOMAIN fld.procs
            THEN [err |-> "McsUserError", owner |-> "", attr |-> ""]
            ELSE IF attr_name \in DOMAIN fld.procs[class_name]
                 THEN [err |-> "", owner |-> class_name, attr |-> attr_name]
                 ELSE [err |-> "McsUserError", owner |-> "", attr |-> ""]

\* the attribute object a successful lookup returned
AttrOf(model, field, tgt) ==
    IF tgt.owner = "Field" THEN model.fields[field].attrs[tgt.attr]
    ELSE IF tgt.owner = "Analysis" THEN model.analysis.attrs[tgt.attr]
    ELSE model.fields[field].procs[tgt.owner][tgt.attr]

\* attr.explicit = True; attr.set_value(value)
SetAttr(model, field, tgt, value) ==
    IF tgt.owner = "Field"
    THEN [model EXCEPT !.fields[field].attrs[tgt.attr] = Attr(value, TRUE)]
    ELSE IF tgt.owner = "Analysis"
    THEN [model EXCEPT !.analysis.attrs[tgt.attr] = Attr(value, TRUE)]
    ELSE [model EXCEPT !.fields[field].procs[tgt.owner][tgt.attr] = Attr(value, TRUE)]

----------------------------------------------------------------------------
(* The distribution registry *)

\* Distribution.__init__: the object built for a well-formed name
Distribution(full_name, rv) ==
    [full_name |-> full_name,
     class_name |-> split_attr_name(full_name)[1],
     attr_name |-> split_attr_name(full_name)[2],
     rv |-> rv]

\* a registration that keeps the entry a name has already
RegisterFirstWins(reg, dist) ==
    IF \E i \in DOMAIN reg : reg[i].full_name = dist.full_name
    THEN reg
    ELSE Append(reg, dist)

\* self.instances[full_name] = self: a dict keeps the place of a key it holds
\* already and appends a new one
Register(reg, dist) ==
    IF \E i \in DOMAIN reg : reg[i].full_name = dist.full_name
    THEN [i \in DOMAIN reg |->
            IF reg[i].full_name = dist.full_name THEN dist ELSE reg[i]]
    ELSE Append(reg, dist)

RegisterAll(names) ==
    LET RECURSIVE go(_)
        go(i) == IF i = 0 THEN <<>>
                 ELSE Register(go(i - 1), Distribution(names[i], "rv"))
    IN go(Len(names))

\* the registries a simulation may start from
Registries ==
    { RegisterAll(<<<<"A">>, <<"B">>>>),
      RegisterAll(<<<<"A">>>>),
      RegisterAll(<<<<"A">>, <<"Field", "A">>>>),
      RegisterAll(<<<<"B">>, <<"Proc", "X">>>>) }

----------------------------------------------------------------------------
(* Tables and their CSV files *)

TRIAL_NUM == "trial_num"

\* the value the sampler draws for row t of column c of its r-th table
Sample(r, c, t) == (r + 1) * 1000 + c * 100 + t * 7 + 3

\* LHS.lhs(rv_list, trials, columns=cols): one row per trial, one column per
\* random variable, on a fresh 0..trials-1 index without a name
lhs(rv_list, trials, columns, r) ==
    [index_name |-> None,
     cols |-> columns,
     index |-> [t \in 1..trials |-> t - 1],
     rows |-> [t \in 1..trials |-> [c \in 1..Len(rv_list) |-> Sample(r, c, t - 1)]]]

\* DataFrame.to_csv(filename): the index is written as the first column, under
\* its name (an empty header cell when it has none)
to_csv(df) ==
    [header |-> <<(IF IsSome(df.index_name) THEN <<Get(df.index_name)>> ELSE <<"">>)>>
                \o df.cols,
     lines |-> [t \in DOMAIN df.rows |-> <<df.index[t]>> \o df.rows[t]]]

\* pandas renames the k-th repetition of a header cell 'x' to 'x.k'
Mangle(header) ==
    [i \in DOMAIN header |->
        LET k == Cardinality({j \in 1..(i - 1) : header[j] = header[i]})
        IN IF k = 0 THEN header[i] ELSE Append(header[i], ToString(k))]

\* pd.read_csv(path, index_col='trial_num'); raises when no column has that name
read_csv(file) ==
    LET hdr == Mangle(file.header)
        at == Positions(hdr, <<TRIAL_NUM>>)
    IN IF at = {} THEN [err |-> "ValueError", df |-> None]
       ELSE LET p == CHOOSE i \in at : \A j \in at : i <= j
                drop(s) == SubSeq(s, 1, p - 1) \o SubSeq(s, p + 1, Len(s))
            IN [err |-> "",
                df |-> Some([index_name |-> Some(TRIAL_NUM),
                             cols |-> drop(hdr),
                             index |-> [t \in DOMAIN file.lines |-> file.lines[t][p]],
                             rows |-> [t \in DOMAIN file.lines |-> drop(file.lines[t])]])]

----------------------------------------------------------------------------
(* The simulation directory *)

NoDisk ==
    [exists |-> FALSE, meta |-> None, model |-> None,
     td |-> [f \in AllFields |-> None],
     res |-> [f \in AllFields |-> None],
     fail |-> [f \in AllFields |-> None]]

\* a removeTree that takes nothing away
removeTreeKeepsFiles(d) == d

\* removeTree(sim_dir)
removeTree(d) == NoDisk

\* mkdirs(sim_dir)
mkdirs(d) == [d EXCEPT !.exists = TRUE]

----------------------------------------------------------------------------
(* Simulation: metadata, model loading, generation *)

Truthy(field_names) == IsSome(field_names) /\ Len(Get(field_names)) > 0

\* the instance variables __init__ sets before doing anything else
BlankSim(analysis_name, trials, field_names) ==
    [model_xml_string |-> None, model |-> None, trial_data_df |-> None,
     trials |-> trials, analysis_name |-> analysis_name,
     field_names |-> field_names, metadata |-> None]

\* Simulation._save_meta_data
SaveMetaData(s, d) ==
    LET md == [analysis_name |-> s.analysis_name, trials |-> s.trials,
               field_names |-> s.field_names]
    IN [sim |-> [s EXCEPT !.metadata = Some(md)],
        disk |-> [d EXCEPT !.meta = Some(md)]]

\* _load_meta_data that reports a metadata file it cannot read as a
\* McsSystemError
LoadMetaDataSystemError(s, d, field_names) ==
    IF ~IsSome(d.meta) THEN [err |-> "McsSystemError", sim |-> s]
    ELSE LET md == Get(d.meta)
         IN [err |-> "",
             sim |-> [s EXCEPT
                !.metadata = Some(md),
                !.field_names =
                    IF Truthy(field_names)
                    THEN Some(FilterSeq(Get(md.field_names), Range(Get(field_names))))
                    ELSE md.field_names,
                !.analysis_name = md.analysis_name,
                !.trials = md.trials]]

\* Simulation._load_meta_data(field_names); iterating metadata['field_names']
\* when it is null raises a TypeError, which is not caught
LoadMetaData(s, d, field_names) ==
    IF ~IsSome(d.meta) THEN [err |-> "McsUserError", sim |-> s]
    ELSE LET md == Get(d.meta)
         IN IF Truthy(field_names) /\ ~IsSome(md.field_names)
            THEN [err |-> "TypeError", sim |-> s]
            ELSE [err |-> "",
                  sim |-> [s EXCEPT
                     !.metadata = Some(md),
                     !.field_names =
                         IF Truthy(field_names)
                         THEN Some(FilterSeq(Get(md.field_names),
                                             Range(Get(field_names))))
                         ELSE md.field_names,
                     !.analysis_name = md.analysis_name,
                     !.trials = md.trials]]

\* load_model that keeps a model already instantiated instead of building a
\* new one from the cached XML
LoadModelOnce(s) ==
    IF IsSome(s.model) THEN [err |-> "", sim |-> s]
    ELSE LET mf == ModelFileLoad(Get(s.model_xml_string), s.analysis_name,
                                 s.field_names)
         IN IF mf.err # "" THEN [err |-> mf.err, sim |-> s]
            ELSE [err |-> "", sim |-> [s EXCEPT !.model = mf.model]]

\* Simulation.load_model
LoadModel(s) ==
    LET mf == ModelFileLoad(Get(s.model_xml_string), s.analysis_name, s.field_names)
    IN IF mf.err # "" THEN [err |-> mf.err, sim |-> s]
       ELSE [err |-> "", sim |-> [s EXCEPT !.model = mf.model]]

\* Simulation.chosen_fields: the names of the fields it returns;
\* Analysis.get_field raises for a name the analysis does not hold
ChosenFields(s) ==
    LET a == Get(s.model).analysis
    IN IF Truthy(s.field_names)
       THEN IF Range(Get(s.field_names)) \subseteq Range(a.fields)
            THEN [err |-> "", fields |-> Get(s.field_names)]
            ELSE [err |-> "OpgeeException", fields |-> <<>>]
       ELSE [err |-> "", fields |-> a.fields]

\* the column generate() names for a distribution
ColumnName(dist) ==
    IF dist.class_name = "Field" THEN <<dist.attr_name>> ELSE dist.full_name

\* the inner loop without its `if attr.explicit: continue`
ActiveColumnsIgnoreExplicit(reg, model, field) ==
    LET RECURSIVE scan(_, _, _)
        scan(i, cols, rv_list) ==
            IF i > Len(reg) THEN [err |-> "", cols |-> cols, rv_list |-> rv_list]
            ELSE LET dist == reg[i]
                     tgt == lookup(model, dist.full_name, field)
                 IN IF tgt.err # ""
                    THEN [err |-> tgt.err, cols |-> cols, rv_list |-> rv_list]
                    ELSE scan(i + 1, Append(cols, ColumnName(dist)),
                              Append(rv_list, dist.rv))
    IN scan(1, <<>>, <<>>)

\* the inner loop passing over a distribution whose target it cannot find
ActiveColumnsSkipUnresolved(reg, model, field) ==
    LET RECURSIVE scan(_, _, _)
        scan(i, cols, rv_list) ==
            IF i > Len(reg) THEN [err |-> "", cols |-> cols, rv_list |-> rv_list]
            ELSE LET dist == reg[i]
                     tgt == lookup(model, dist.full_name, field)
                 IN IF tgt.err # ""
                    THEN scan(i + 1, cols, rv_list)
                    ELSE IF AttrOf(model, field, tgt).explicit
                    THEN scan(i + 1, cols, rv_list)
                    ELSE scan(i + 1, Append(cols, ColumnName(dist)),
                              Append(rv_list, dist.rv))
    IN scan(1, <<>>, <<>>)

\* the inner loop of generate(): the distributions sampled for `field`
ActiveColumns(reg, model, field) ==
    LET RECURSIVE scan(_, _, _)
        scan(i, cols, rv_list) ==
            IF i > Len(reg) THEN [err |-> "", cols |-> cols, rv_list |-> rv_list]
            ELSE LET dist == reg[i]
                     tgt == lookup(model, dist.full_name, field)
                 IN IF tgt.err # ""
                    THEN [err |-> tgt.err, cols |-> cols, rv_list |-> rv_list]
                    ELSE IF AttrOf(model, field, tgt).explicit
                    THEN scan(i + 1, cols, rv_list)
                    ELSE scan(i + 1, Append(cols, ColumnName(dist)),
                              Append(rv_list, dist.rv))
    IN scan(1, <<>>, <<>>)

\* Simulation.save_trial_data(field)
SaveTrialData(s, d, field) ==
    [d EXCEPT !.td[field] = Some(to_csv(Get(s.trial_data_df)))]

\* the loop body without `df.index.name = 'trial_num'`
GenerateFieldUnnamedIndex(reg, s, d, r, field) ==
    Bind(ActiveColumns(reg, Get(s.model), field), LAMBDA ac :
      IF ac.err # "" THEN [err |-> ac.err, sim |-> s, disk |-> d, rng |-> r]
      ELSE IF ac.cols = <<>>
      THEN [err |-> "McsUserError", sim |-> s, disk |-> d, rng |-> r]
      ELSE Bind(lhs(ac.rv_list, s.trials, ac.cols, r), LAMBDA df :
           Bind([s EXCEPT !.trial_data_df = Some(df)], LAMBDA s2 :
             [err |-> "", sim |-> s2, disk |-> SaveTrialData(s2, d, field),
              rng |-> r + 1])))

\* the body of generate()'s loop for one field
GenerateField(reg, s, d, r, field) ==
    Bind(ActiveColumns(reg, Get(s.model), field), LAMBDA ac :
      IF ac.err # "" THEN [err |-> ac.err, sim |-> s, disk |-> d, rng |-> r]
      ELSE IF ac.cols = <<>>
      THEN [err |-> "McsUserError", sim |-> s, disk |-> d, rng |-> r]
      ELSE Bind([lhs(ac.rv_list, s.trials, ac.cols, r)
                    EXCEPT !.index_name = Some(TRIAL_NUM)], LAMBDA df :
           Bind([s EXCEPT !.trial_data_df = Some(df)], LAMBDA s2 :
             [err |-> "", sim |-> s2, disk |-> SaveTrialData(s2, d, field),
              rng |-> r + 1])))

\* Simulation.generate
Generate(reg, s, d, r) ==
    LET RECURSIVE loop(_, _, _)
        loop(fields, i, st) ==
            IF i > Len(fields) \/ st.err # "" THEN st
            ELSE Bind(GenerateField(reg, st.sim, st.disk, st.rng, fields[i]),
                      LAMBDA nx : loop(fields, i + 1, nx))
    IN Bind(ChosenFields(s), LAMBDA cf :
         IF cf.err # "" THEN [err |-> cf.err, sim |-> s, disk |-> d, rng |-> r]
         ELSE Bind([err |-> "", sim |-> s, disk |-> d, rng |-> r],
                   LAMBDA st0 : loop(cf.fields, 1, st0)))

\* Simulation.__init__(sim_dir, analysis_name, trials, field_names,
\* meta_data_only); analysis_name "" stands for None.  The result holds the
\* object only when the constructor returned.
Construct(reg, d, r, analysis_name, trials, field_names, meta_data_only) ==
    LET Raise(e, dd, rr) == [err |-> e, sim |-> None, disk |-> dd, rng |-> rr]
        Return(ss, dd, rr) == [err |-> "", sim |-> Some(ss), disk |-> dd, rng |-> rr]
        \* from load_model() on
        Rest(sv) ==
            Bind(LoadModel(sv.sim), LAMBDA lm :
              IF lm.err # "" THEN Raise(lm.err, sv.disk, r)
              ELSE IF trials > 0
              THEN Bind(Generate(reg, lm.sim, sv.disk, r), LAMBDA gn :
                     IF gn.err # "" THEN Raise(gn.err, gn.disk, gn.rng)
                     ELSE Return(gn.sim, gn.disk, gn.rng))
              ELSE Return(lm.sim, sv.disk, r))
    IN IF ~d.exists THEN Raise("McsUserError", d, r)
       ELSE
       Bind(IF analysis_name = ""
            THEN LoadMetaData(BlankSim(analysis_name, trials, field_names), d,
                              field_names)
            ELSE [err |-> "", sim |-> BlankSim(analysis_name, trials, field_names)],
            LAMBDA ld :
         IF ld.err # "" THEN Raise(ld.err, d, r)
         ELSE IF analysis_name = "" /\ meta_data_only THEN Return(ld.sim, d, r)
         ELSE IF ~IsSome(d.model) THEN Raise("McsSystemError", d, r)
         ELSE
         Bind([ld.sim EXCEPT !.model_xml_string = d.model], LAMBDA s1 :
           Bind(IF analysis_name # "" THEN SaveMetaData(s1, d)
                ELSE [sim |-> s1, disk |-> d], LAMBDA sv :
             IF analysis_name # "" /\ meta_data_only
             THEN Return(sv.sim, sv.disk, r)
             ELSE Rest(sv))))

\* analysis.field_names(enabled_only=True)
EnabledFieldNames(xml) ==
    SelectSeq(xml.analysis.fields, LAMBDA f : xml.fields[f].enabled)

\* Simulation.new(sim_dir, model_files, analysis_name, trials, field_names,
\* overwrite); xml is what merging model_files yields
SimulationNew(reg, d, r, xml, analysis_name, trials, field_names, overwrite) ==
    IF d.exists /\ ~overwrite
    THEN [err |-> "McsUserError", sim |-> None, disk |-> d, rng |-> r]
    ELSE Bind([mkdirs(IF d.exists THEN removeTree(d) ELSE d)
                  EXCEPT !.model = Some(xml)], LAMBDA d2 :
           IF xml.analysis.name # analysis_name
           THEN [err |-> "McsUserError", sim |-> None, disk |-> d2, rng |-> r]
           ELSE Bind(IF Truthy(field_names) THEN field_names
                     ELSE Some(EnabledFieldNames(xml)), LAMBDA fn :
                  Construct(reg, d2, r, analysis_name, trials, fn, FALSE)))

----------------------------------------------------------------------------
(* The model evaluator: Field.run(analysis, compute_ci=True, trial_num) *)

\* what the evaluation of a field is computed from: its attribute values
FieldLoad(fld) ==
    fld.attrs["A"].value + fld.attrs["B"].value
    + (IF "Proc" \in DOMAIN fld.procs THEN fld.procs["Proc"]["X"].value ELSE 0)

\* a deterministic evaluator: it adds the emissions of this run to the rates
\* the graph holds, raises on an invalid configuration (after the first
\* category was written) and otherwise exposes the carbon intensity
FieldRun(model, field) ==
    LET fld == model.fields[field]
        x == FieldLoad(fld)
        em1 == [fld.emissions EXCEPT !["Combustion"] = @ + x]
        em2 == [em1 EXCEPT !["Land-use"] = @ + 25, !["Venting"] = @ + (x % 100),
                           !["Flaring"] = @ + 12, !["Fugitives"] = @ + 7,
                           !["Other"] = @ + (x \div 100)]
        total == SeqSum(<<em2["Combustion"], em2["Land-use"], em2["Venting"],
                          em2["Flaring"], em2["Fugitives"], em2["Other"]>>)
    IN IF ~fld.enabled THEN [err |-> "", model |-> model]
       ELSE IF x % 3 = 0
       THEN [err |-> "OpgeeException",
             model |-> [model EXCEPT !.fields[field].emissions = em1]]
       ELSE [err |-> "",
             model |-> [model EXCEPT !.fields[field].emissions = em2,
                                     !.fields[field].carbon_intensity =
                                         Some(total \div 4 + 1)]]

----------------------------------------------------------------------------
(* Simulation.run_field *)

\* Simulation.field_trial_data(field): the cached table, read on first use
FieldTrialData(s, d, field) ==
    IF IsSome(s.trial_data_df) THEN [err |-> "", sim |-> s]
    ELSE IF ~IsSome(d.td[field]) THEN [err |-> "McsSystemError", sim |-> s]
    ELSE Bind(read_csv(Get(d.td[field])), LAMBDA rd :
           IF rd.err # "" THEN [err |-> "McsSystemError", sim |-> s]
           ELSE [err |-> "", sim |-> [s EXCEPT !.trial_data_df = rd.df]])

\* trial_data without its `if trial_num not in df.index`: a trial number the
\* table does not hold yields a row without values
TrialDataUnchecked(s, d, field, trial_num) ==
    Bind(FieldTrialData(s, d, field), LAMBDA ftd :
      IF ftd.err # "" THEN [err |-> ftd.err, sim |-> ftd.sim, data |-> <<>>]
      ELSE Bind(Get(ftd.sim.trial_data_df), LAMBDA df :
           Bind(Positions(df.index, trial_num), LAMBDA at :
             IF at = {}
             THEN [err |-> "", sim |-> ftd.sim, data |-> <<>>]
             ELSE Bind(CHOOSE i \in at : TRUE, LAMBDA p :
                    [err |-> "", sim |-> ftd.sim,
                     data |-> [c \in DOMAIN df.cols |->
                                 <<df.cols[c], df.rows[p][c]>>]]))))

\* trial_data that takes the row out of the cached table as it returns it
TrialDataConsumesRow(s, d, field, trial_num) ==
    Bind(FieldTrialData(s, d, field), LAMBDA ftd :
      IF ftd.err # "" THEN [err |-> ftd.err, sim |-> ftd.sim, data |-> <<>>]
      ELSE Bind(Get(ftd.sim.trial_data_df), LAMBDA df :
           Bind(Positions(df.index, trial_num), LAMBDA at :
             IF at = {}
             THEN [err |-> "McsSystemError", sim |-> ftd.sim, data |-> <<>>]
             ELSE Bind(CHOOSE i \in at : TRUE, LAMBDA p :
                    LET drop(x) == [i \in 1..(Len(x) - 1) |->
                                      IF i < p THEN x[i] ELSE x[i + 1]]
                    IN [err |-> "",
                        sim |-> [ftd.sim EXCEPT !.trial_data_df =
                                   Some([df EXCEPT !.index = drop(@),
                                                   !.rows = drop(@)])],
                        data |-> [c \in DOMAIN df.cols |->
                                    <<df.cols[c], df.rows[p][c]>>]]))))

\* Simulation.trial_data(field, trial_num): the row as (name, value) pairs
TrialData(s, d, field, trial_num) ==
    Bind(FieldTrialData(s, d, field), LAMBDA ftd :
      IF ftd.err # "" THEN [err |-> ftd.err, sim |-> ftd.sim, data |-> <<>>]
      ELSE Bind(Get(ftd.sim.trial_data_df), LAMBDA df :
           Bind(Positions(df.index, trial_num), LAMBDA at :
             IF at = {}
             THEN [err |-> "McsSystemError", sim |-> ftd.sim, data |-> <<>>]
             ELSE Bind(CHOOSE i \in at : TRUE, LAMBDA p :
                    [err |-> "", sim |-> ftd.sim,
                     data |-> [c \in DOMAIN df.cols |->
                                 <<df.cols[c], df.rows[p][c]>>]]))))

\* Simulation.set_trial_data(field, trial_num), on the model s holds
SetTrialData(s, d, field, trial_num) ==
    LET RECURSIVE apply(_, _, _)
        apply(data, i, model) ==
            IF i > Len(data) THEN [err |-> "", model |-> model]
            ELSE Bind(lookup(model, data[i][1], field), LAMBDA tgt :
                   IF tgt.err # "" THEN [err |-> tgt.err, model |-> model]
                   ELSE Bind(SetAttr(model, field, tgt, data[i][2]),
                             LAMBDA m2 : apply(data, i + 1, m2)))
    IN Bind(TrialData(s, d, field, trial_num), LAMBDA td :
         IF td.err # "" THEN [err |-> td.err, sim |-> td.sim]
         ELSE Bind(apply(td.data, 1, Get(td.sim.model)), LAMBDA ap :
                [err |-> ap.err, sim |-> [td.sim EXCEPT !.model = Some(ap.model)]]))

\* the try block of run_field's loop for one trial number: reload the model,
\* find the field again, apply the trial's data, run the field.  `handed` is
\* the model as the evaluator received it, when it was reached.
TrialTry(s, d, field, trial_num) ==
    Bind(LoadModel(s), LAMBDA lm :
      IF lm.err # "" THEN [err |-> lm.err, sim |-> lm.sim, handed |-> None]
      ELSE IF field \notin Range(Get(lm.sim.model).analysis.fields)
      THEN [err |-> "OpgeeException", sim |-> lm.sim, handed |-> None]
      ELSE Bind(SetTrialData(lm.sim, d, field, trial_num), LAMBDA st :
             IF st.err # "" THEN [err |-> st.err, sim |-> st.sim, handed |-> None]
             ELSE Bind(FieldRun(Get(st.sim.model), field), LAMBDA ev :
                    [err |-> ev.err,
                     sim |-> [st.sim EXCEPT !.model = Some(ev.model)],
                     handed |-> st.sim.model])))

\* a result tuple whose VFF leaves the fugitive emissions out
ResultTupleVffWithoutFugitives(model, field, trial_num) ==
    LET fld == model.fields[field]
        ghg == fld.emissions
        total_ghg == SeqSum(<<ghg["Combustion"], ghg["Land-use"], ghg["Venting"],
                              ghg["Flaring"], ghg["Fugitives"], ghg["Other"]>>)
        vff == ghg["Venting"] + ghg["Flaring"]
    IN IF ~IsSome(fld.carbon_intensity) THEN [err |-> "AttributeError", tup |-> <<>>]
       ELSE [err |-> "",
             tup |-> <<trial_num,
                       magnitude(Get(fld.carbon_intensity)),
                       magnitude(total_ghg),
                       magnitude(ghg["Combustion"]),
                       magnitude(ghg["Land-use"]),
                       magnitude(vff),
                       magnitude(ghg["Other"])>>]

\* the result tuple run_field builds after a successful trial; reading the
\* magnitude of a carbon intensity that was never computed raises
ResultTuple(model, field, trial_num) ==
    LET fld == model.fields[field]
        ghg == fld.emissions
        total_ghg == SeqSum(<<ghg["Combustion"], ghg["Land-use"], ghg["Venting"],
                              ghg["Flaring"], ghg["Fugitives"], ghg["Other"]>>)
        vff == ghg["Venting"] + ghg["Flaring"] + ghg["Fugitives"]
    IN IF ~IsSome(fld.carbon_intensity) THEN [err |-> "AttributeError", tup |-> <<>>]
       ELSE [err |-> "",
             tup |-> <<trial_num,
                       magnitude(Get(fld.carbon_intensity)),
                       magnitude(total_ghg),
                       magnitude(ghg["Combustion"]),
                       magnitude(ghg["Land-use"]),
                       magnitude(vff),
                       magnitude(ghg["Other"])>>]

ResultCols == <<"trial_num", "CI", "total_GHG", "combustion", "land_use", "VFF", "other">>

\* a save that merges into the files: the rows a file already holds are kept
\* and the rows of this run are added after them
SaveTrialResultsMerges(d, field, results, failures) ==
    LET old(o) == IF IsSome(o) THEN Get(o).lines ELSE <<>>
    IN [d EXCEPT !.res[field] = Some([header |-> ResultCols,
                                      lines |-> old(d.res[field]) \o results]),
                 !.fail[field] = Some([header |-> <<"trial_num", "message">>,
                                       lines |-> old(d.fail[field]) \o failures])]

\* a save that writes a file only when there are rows for it
SaveTrialResultsSkipsEmpty(d, field, results, failures) ==
    [d EXCEPT !.res[field] = IF results = <<>> THEN @
                             ELSE Some([header |-> ResultCols, lines |-> results]),
              !.fail[field] = IF failures = <<>> THEN @
                              ELSE Some([header |-> <<"trial_num", "message">>,
                                         lines |-> failures])]

\* Simulation.save_trial_results(field, df, failures)
SaveTrialResults(d, field, results, failures) ==
    [d EXCEPT !.res[field] = Some([header |-> ResultCols, lines |-> results]),
              !.fail[field] = Some([header |-> <<"trial_num", "message">>,
                                    lines |-> failures])]

Idle ==
    [pc |-> "idle", field |-> "", nums |-> <<>>, i |-> 0, completed |-> 0,
     results |-> <<>>, failures |-> <<>>, handed |-> None]

\* the loop body with `completed += 1` ahead of the try block, so that a
\* failed trial is counted too
TrialStepCountsAttempts(act, s, d) ==
    Bind(TrialTry(s, d, act.field, act.nums[act.i]), LAMBDA tt :
      IF tt.err # ""
      THEN [sim |-> tt.sim,
            rf |-> [act EXCEPT !.i = @ + 1, !.handed = tt.handed,
                               !.completed = @ + 1,
                               !.failures = Append(@, <<act.nums[act.i], tt.err>>)]]
      ELSE Bind(ResultTuple(Get(tt.sim.model), act.field, act.nums[act.i]),
                LAMBDA rt :
             IF rt.err # ""
             THEN [sim |-> tt.sim,
                   rf |-> [act EXCEPT !.pc = "raised", !.handed = tt.handed,
                                      !.completed = @ + 1]]
             ELSE [sim |-> tt.sim,
                   rf |-> [act EXCEPT !.i = @ + 1, !.handed = tt.handed,
                                      !.completed = @ + 1,
                                      !.results = Append(@, rt.tup)]]))

\* the loop body with the handler the source keeps commented out
\* (`raise TrialErrorWrapper(e, trial_num)`): a failed trial leaves the loop
TrialStepReraises(act, s, d) ==
    Bind(TrialTry(s, d, act.field, act.nums[act.i]), LAMBDA tt :
      IF tt.err # ""
      THEN [sim |-> tt.sim,
            rf |-> [act EXCEPT !.pc = "raised", !.handed = tt.handed]]
      ELSE Bind(ResultTuple(Get(tt.sim.model), act.field, act.nums[act.i]),
                LAMBDA rt :
             IF rt.err # ""
             THEN [sim |-> tt.sim,
                   rf |-> [act EXCEPT !.pc = "raised", !.handed = tt.handed,
                                      !.completed = @ + 1]]
             ELSE [sim |-> tt.sim,
                   rf |-> [act EXCEPT !.i = @ + 1, !.handed = tt.handed,
                                      !.completed = @ + 1,
                                      !.results = Append(@, rt.tup)]]))

\* one pass through the body of run_field's loop, for trial number nums[i]
TrialStep(act, s, d) ==
    Bind(TrialTry(s, d, act.field, act.nums[act.i]), LAMBDA tt :
      IF tt.err # ""
      THEN [sim |-> tt.sim,
            rf |-> [act EXCEPT !.i = @ + 1, !.handed = tt.handed,
                               !.failures = Append(@, <<act.nums[act.i], tt.err>>)]]
      ELSE Bind(ResultTuple(Get(tt.sim.model), act.field, act.nums[act.i]),
                LAMBDA rt :
             IF rt.err # ""
             THEN [sim |-> tt.sim,
                   rf |-> [act EXCEPT !.pc = "raised", !.handed = tt.handed,
                                      !.completed = @ + 1]]
             ELSE [sim |-> tt.sim,
                   rf |-> [act EXCEPT !.i = @ + 1, !.handed = tt.handed,
                                      !.completed = @ + 1,
                                      !.results = Append(@, rt.tup)]]))

----------------------------------------------------------------------------
(* The calls the model makes *)

NoCall ==
    [op |-> "", err |-> "", existed |-> FALSE, overwrite |-> FALSE,
     analysis_name |-> "", trials |-> 0, field_names |-> None,
     meta_data_only |-> FALSE, ret |-> 0, name |-> <<>>, rows |-> <<>>,
     meta |-> None, loaded |-> FALSE,
     tuples |-> <<>>, by_process |-> FALSE, csv |-> None]

\* Simulation.run is not active
NoRun ==
    [pc |-> "idle", fields |-> <<>>, k |-> 0, nums |-> None, invoked |-> <<>>,
     skipped |-> <<>>]

\* the registrations that built a registry, one per entry
LogOf(reg) == [i \in DOMAIN reg |-> <<reg[i].full_name, reg[i].rv>>]

\* the model files and registry contents a behaviour starts from
Scenarios ==
    { <<RegisterAll(<<<<"A">>, <<"B">>>>), XmlFree>>,
      <<RegisterAll(<<<<"A">>, <<"B">>>>), XmlPinned>>,
      <<RegisterAll(<<<<"A">>>>), XmlAllPinned>>,
      <<RegisterAll(<<<<"A">>, <<"Field", "A">>>>), XmlPinned>>,
      <<RegisterAll(<<<<"A">>, <<"Field", "A">>>>), XmlFree>>,
      <<RegisterAll(<<<<"B">>, <<"Proc", "X">>>>), XmlFree>>,
      <<RegisterAll(<<<<"B">>, <<"Proc", "Y">>>>), XmlPinned>> }

\* the trial_nums arguments run_field is called with: all trials, a subset, a
\* reordering, a repetition, a number the table does not hold
TrialNumArgs ==
    {None, Some(<<>>), Some(<<0>>), Some(<<1, 0>>), Some(<<0, 0>>),
     Some(<<MaxTrials>>), Some(<<MaxTrials, 0>>)}

Init ==
    /\ \E sc \in Scenarios : instances = sc[1] /\ model_files = sc[2]
    /\ log = LogOf(instances)
    /\ ra = NoRun
    /\ rng = 0
    /\ disk = NoDisk
    /\ sim = None
    /\ rf = Idle
    /\ last = NoCall
    /\ calls = 0

\* Simulation.new(...)
New ==
    \E an \in {AnalysisName, "other"}, t \in 0..MaxTrials,
       fn \in {None, Some(<<"F1">>)}, ow \in BOOLEAN :
       \E r \in {SimulationNew(instances, disk, rng, model_files, an, t, fn, ow)} :
          /\ rf.pc # "loop" /\ calls < MaxCalls
          /\ calls' = calls + 1
          /\ disk' = r.disk
          /\ rng' = r.rng
          /\ sim' = IF r.err = "" THEN r.sim ELSE sim
          /\ rf' = Idle
          /\ last' = [NoCall EXCEPT !.op = "new", !.err = r.err,
                         !.existed = disk.exists, !.overwrite = ow,
                         !.analysis_name = an, !.trials = t, !.field_names = fn]
          /\ UNCHANGED <<instances, log, ra, model_files>>

\* Simulation(sim_dir, analysis_name, trials, field_names)
Open ==
    \E an \in {"", AnalysisName}, t \in 0..MaxTrials,
       fn \in {None, Some(<<"F1">>), Some(<<"F2">>)} :
       \E r \in {Construct(instances, disk, rng, an, t, fn, FALSE)} :
          /\ rf.pc # "loop" /\ calls < MaxCalls
          /\ calls' = calls + 1
          /\ disk' = r.disk
          /\ rng' = r.rng
          /\ sim' = IF r.err = "" THEN r.sim ELSE sim
          /\ rf' = Idle
          /\ last' = [NoCall EXCEPT !.op = "init", !.err = r.err,
                         !.existed = disk.exists,
                         !.analysis_name = an, !.trials = t, !.field_names = fn]
          /\ UNCHANGED <<instances, log, ra, model_files>>

\* Simulation.read_metadata(sim_dir)
ReadMetadata ==
    \E r \in {Construct(instances, disk, rng, "", 0, None, TRUE)} :
       /\ rf.pc # "loop" /\ calls < MaxCalls
       /\ calls' = calls + 1
       /\ disk' = r.disk
       /\ rng' = r.rng
       /\ last' = [NoCall EXCEPT !.op = "read_metadata", !.err = r.err,
                      !.existed = disk.exists, !.meta_data_only = TRUE,
                      !.ret = IF r.err = "" /\ IsSome(Get(r.sim).metadata)
                              THEN Get(Get(r.sim).metadata).trials ELSE 0,
                      !.meta = IF r.err = "" THEN Get(r.sim).metadata ELSE None,
                      !.loaded = r.err = "" /\ (IsSome(Get(r.sim).model_xml_string)
                                                \/ IsSome(Get(r.sim).model))]
       /\ rf' = Idle
       /\ UNCHANGED <<instances, log, ra, model_files, sim>>

\* sim.generate()
GenerateCall ==
    /\ rf.pc # "loop" /\ calls < MaxCalls
    /\ IsSome(sim) /\ IsSome(Get(sim).model)
    /\ \E r \in {Generate(instances, Get(sim), disk, rng)} :
          /\ disk' = r.disk
          /\ rng' = r.rng
          /\ sim' = Some(r.sim)
          /\ last' = [NoCall EXCEPT !.op = "generate", !.err = r.err,
                         !.existed = disk.exists]
    /\ calls' = calls + 1
    /\ rf' = Idle
    /\ UNCHANGED <<instances, log, ra, model_files>>

Next ==
    \/ New
    \/ Open
    \/ ReadMetadata
    \/ GenerateCall

\* the life of a simulation directory: creation, opening, generation
Spec == Init /\ [][Next]_vars

----------------------------------------------------------------------------
(* Running trials on a simulation that was created *)

\* the Simulation object and directory after Simulation.new(sim_dir, ...,
\* analysis, t) on a fresh path; the object is the one new() returned or, when
\* reopened, the one Simulation(sim_dir) builds from the directory afterwards
InitRun ==
    /\ \E sc \in Scenarios : instances = sc[1] /\ model_files = sc[2]
    /\ log = LogOf(instances)
    /\ ra = NoRun
    /\ \E t \in 1..MaxTrials, reopened \in BOOLEAN :
          \E n \in {SimulationNew(instances, NoDisk, 0, model_files,
                                    AnalysisName, t, None, FALSE)} :
          \E o \in {Construct(instances, n.disk, n.rng, "", 0, None, FALSE)} :
             /\ IF reopened THEN o.err = "" ELSE n.err = ""
             /\ disk = n.disk
             /\ rng = n.rng
             /\ sim = IF reopened THEN o.sim ELSE n.sim
             /\ last = [NoCall EXCEPT !.op = IF reopened THEN "init" ELSE "new",
                           !.analysis_name = IF reopened THEN "" ELSE AnalysisName,
                           !.trials = IF reopened THEN 0 ELSE t]
    /\ rf = Idle
    /\ calls = 0

\* sim.run_field(field, trial_nums) is entered
RunFieldBegin ==
    /\ rf.pc # "loop" /\ ra.pc # "fields" /\ calls < MaxRuns
    /\ IsSome(sim) /\ IsSome(Get(sim).model)
    /\ \E f \in DOMAIN Get(Get(sim).model).fields, tn \in TrialNumArgs :
          /\ rf' = [Idle EXCEPT !.pc = "loop", !.field = f, !.i = 1,
                       !.nums = IF IsSome(tn) THEN Get(tn)
                                ELSE [k \in 1..Get(sim).trials |-> k - 1]]
          /\ last' = [NoCall EXCEPT !.op = "run_field", !.err = "pending",
                         !.existed = disk.exists]
    /\ calls' = calls + 1
    /\ UNCHANGED <<instances, log, ra, model_files, rng, disk, sim>>

\* one trial of the loop
RunTrial ==
    /\ rf.pc = "loop" /\ rf.i <= Len(rf.nums)
    /\ \E r \in {TrialStep(rf, Get(sim), disk)} :
          /\ sim' = Some(r.sim)
          /\ rf' = r.rf
          /\ last' = IF r.rf.pc = "raised"
                     THEN [last EXCEPT !.err = "AttributeError"] ELSE last
    /\ UNCHANGED <<instances, log, ra, model_files, rng, disk, calls>>

\* the loop is over: the tables are saved and the count is returned
RunFieldEnd ==
    /\ rf.pc = "loop" /\ rf.i > Len(rf.nums)
    /\ disk' = SaveTrialResults(disk, rf.field, rf.results, rf.failures)
    /\ rf' = [rf EXCEPT !.pc = "returned"]
    /\ last' = [last EXCEPT !.err = "", !.ret = rf.completed]
    /\ UNCHANGED <<instances, log, ra, model_files, rng, sim, calls>>

NextRun ==
    \/ RunFieldBegin
    \/ RunTrial
    \/ RunFieldEnd

SpecRun == InitRun /\ [][NextRun]_vars

----------------------------------------------------------------------------
(* What the properties below read off a state *)

\* the trial numbers of the rows of a persisted results or failures file
TrialsOf(file) == {file.lines[i][1] : i \in DOMAIN file.lines}

\* a column or distribution name denotes attribute `attr` of `owner` (the
\* field itself is owner "Field")
Denotes(name, owner, attr) ==
    \/ Len(name) = 1 /\ owner = "Field" /\ name[1] = attr
    \/ Len(name) = 2 /\ name[1] = owner /\ name[2] = attr

\* the attribute a template attribute becomes under the (name, value) pairs of
\* a trial: the last pair that denotes it wins, and marks it explicit
Overridden(tmpl, data, owner, attr) ==
    LET hits == {i \in DOMAIN data : Denotes(data[i][1], owner, attr)}
    IN IF hits = {} THEN tmpl
       ELSE Attr(data[CHOOSE i \in hits : \A j \in hits : j <= i][2], TRUE)

\* the graph a trial on `field` must start from: the template's fields kept by
\* the simulation, nothing computed, and only `data` applied
PristineWith(xml, shape, field, data) ==
    [analysis |->
        [name |-> xml.analysis.name,
         attrs |-> [n \in DOMAIN xml.analysis.attrs |->
                      Overridden(xml.analysis.attrs[n], data, "Analysis", n)],
         fields |-> shape.analysis.fields],
     fields |->
        [f \in DOMAIN shape.fields |->
           [enabled |-> xml.fields[f].enabled,
            attrs |-> [n \in DOMAIN xml.fields[f].attrs |->
                         IF f = field
                         THEN Overridden(xml.fields[f].attrs[n], data, "Field", n)
                         ELSE xml.fields[f].attrs[n]],
            procs |-> [c \in DOMAIN xml.fields[f].procs |->
                         [n \in DOMAIN xml.fields[f].procs[c] |->
                            IF f = field
                            THEN Overridden(xml.fields[f].procs[c][n], data, c, n)
                            ELSE xml.fields[f].procs[c][n]]],
            carbon_intensity |-> None,
            emissions |-> [c \in Categories |-> 0]]]]

\* row t of a table, as (column name, value) pairs
RowOf(df, t) ==
    LET p == CHOOSE i \in DOMAIN df.index : df.index[i] = t
    IN [c \in DOMAIN df.cols |-> <<df.cols[c], df.rows[p][c]>>]

\* the trial number the last RunTrial step executed
LastTrial == rf.nums[IF rf.pc = "raised" THEN rf.i ELSE rf.i - 1]

\* the evaluator was invoked in the last RunTrial step
Evaluated == rf.pc \in {"loop", "returned", "raised"} /\ IsSome(rf.handed)

----------------------------------------------------------------------------
(* C1 *)

\* C1: when run_field returns for N requested trial numbers, the count it
\* returns plus the number of failure rows is N, no trial number is in both
\* the results and the failures table, and the two tables together hold
\* exactly the requested trial numbers.
C1_CountsAndTablesPartitionRequest ==
    rf.pc = "returned" =>
        LET res == Get(disk.res[rf.field])
            fl == Get(disk.fail[rf.field])
        IN /\ last.ret + Len(fl.lines) = Len(rf.nums)
           /\ TrialsOf(res) \cap TrialsOf(fl) = {}
           /\ TrialsOf(res) \cup TrialsOf(fl) = Range(rf.nums)

\* a run that returned with a repeated trial number, one completed trial and
\* none failed is not enough: both tables are in use here
C1_Witness ==
    /\ rf.pc = "returned"
    /\ Len(rf.nums) >= 2
    /\ Len(Get(disk.res[rf.field]).lines) >= 1
    /\ Len(Get(disk.fail[rf.field]).lines) >= 1

----------------------------------------------------------------------------
(* C2 *)

\* C2: whenever the try block of a trial (reloading the model, finding the
\* field, applying the trial's data, the evaluator) raises for trial number
\* t, that step appends (t, message) to the failures, stays in the loop and
\* moves on to the next requested trial number with every earlier row kept;
\* and run_field never ends by raising to its caller.
C2_FailureStep ==
    (rf.pc = "loop" /\ rf.i <= Len(rf.nums)) =>
        LET t == rf.nums[rf.i]
            e == TrialTry(Get(sim), disk, rf.field, t).err
        IN e # "" =>
              /\ rf'.failures = Append(rf.failures, <<t, e>>)
              /\ rf'.results = rf.results
              /\ rf'.pc = "loop"
              /\ rf'.nums = rf.nums
              /\ rf'.i = rf.i + 1

C2_FailureIsRecordedAndLoopGoesOn ==
    /\ [][C2_FailureStep]_vars
    /\ [](rf.pc # "raised")
    /\ [](rf.pc = "returned" =>
            Len(rf.results) + Len(rf.failures) = Len(rf.nums))

\* a run that returned after its first trial failed and a later one completed
C2_Witness ==
    /\ rf.pc = "returned"
    /\ Len(rf.nums) = 2
    /\ Len(rf.failures) = 1 /\ rf.failures[1][1] = rf.nums[1]
    /\ Len(rf.results) = 1 /\ rf.results[1][1] = rf.nums[2]

----------------------------------------------------------------------------
(* C3 *)

\* C3: the model handed to the evaluator for a trial is the cached template
\* instantiated afresh with only the row of that trial applied: nothing an
\* earlier trial wrote (a value, an explicit flag, a computed result) is in it.
C3_HandedGraphIsPristine ==
    Evaluated =>
        Get(rf.handed) =
            PristineWith(Get(Get(sim).model_xml_string), Get(rf.handed), rf.field,
                         RowOf(Get(Get(sim).trial_data_df), LastTrial))

\* the evaluator is invoked for a trial after two earlier trials of the same
\* run, one that completed and one that failed
C3_Witness ==
    /\ Evaluated
    /\ Len(rf.results) + Len(rf.failures) >= 2
    /\ calls = 2

----------------------------------------------------------------------------
(* C4 *)

\* C4: whenever the evaluator is invoked for trial t of a field, every
\* parameter named by a column of that field's own persisted trial data is
\* explicit in the model it receives and holds the value of row t of that
\* field's table.
C4_TrialSeesOwnFieldsRow ==
    (Evaluated /\ IsSome(disk.td[rf.field])) =>
        LET file == Get(disk.td[rf.field])
            fld == Get(rf.handed).fields[rf.field]
            seen(name) ==
                IF Len(name) = 1 THEN fld.attrs[name[1]]
                ELSE IF name[1] = "Field" THEN fld.attrs[name[2]]
                ELSE fld.procs[name[1]][name[2]]
        IN \A i \in DOMAIN file.lines :
              file.lines[i][1] = LastTrial =>
                 \A c \in 2..Len(file.header) :
                    seen(file.header[c]) = Attr(file.lines[i][c], TRUE)

----------------------------------------------------------------------------
(* C5 *)

\* the fields new() hands to the constructor
NewFields(field_names) ==
    IF Truthy(field_names) THEN Get(field_names)
    ELSE SelectSeq(model_files.analysis.fields,
                   LAMBDA f : model_files.fields[f].enabled)

\* the directory holds the template, the metadata of the call and trial data
\* of the call's fields, and nothing else
HoldsOnlyWhatNewWrote(d, analysis_name, trials, field_names) ==
    /\ d.exists
    /\ d.model = Some(model_files)
    /\ d.meta = Some([analysis_name |-> analysis_name, trials |-> trials,
                      field_names |-> Some(NewFields(field_names))])
    /\ \A f \in AllFields :
          /\ d.res[f] = None /\ d.fail[f] = None
          /\ IsSome(d.td[f]) <=> (trials > 0 /\ f \in Range(NewFields(field_names)))

\* C5: Simulation.new on a path that exists raises a UserError and changes
\* nothing in the directory when overwrite is false; with overwrite it ends as
\* the same call on a fresh path ends, leaving the directory that call leaves
\* there, so nothing of the earlier contents remains; and when it returns the
\* directory holds only the template, the metadata and the trial data it wrote.
C5_NewStep ==
    (calls' = calls + 1 /\ last'.op = "new" /\ disk.exists) =>
        IF ~last'.overwrite
        THEN last'.err = "McsUserError" /\ disk' = disk
        ELSE LET fresh == SimulationNew(instances, NoDisk, rng, model_files,
                                        last'.analysis_name, last'.trials,
                                        last'.field_names, FALSE)
             IN /\ last'.err = fresh.err
                /\ disk' = fresh.disk
                /\ last'.err = "" =>
                      HoldsOnlyWhatNewWrote(disk', last'.analysis_name,
                                            last'.trials, last'.field_names)

----------------------------------------------------------------------------
(* C6 *)

\* C6: once the metadata is written, no step other than Simulation.new
\* (constructing or opening a Simulation on the directory, reading the
\* metadata, generating) changes the stored analysis name, trial count or
\* field names.
C6_MetadataStep ==
    (IsSome(disk.meta) /\ last'.op # "new") => disk'.meta = disk.meta

C6_MetadataNeverChanges == [][C6_MetadataStep]_vars

----------------------------------------------------------------------------
(* C7 *)

\* C7: opening an existing directory (Simulation(sim_dir, trials=t) without an
\* analysis name) generates only when t > 0 and the directory holds no trial
\* data, and leaves every persisted trial data file as it is.
C7_OpenStep ==
    (calls' = calls + 1 /\ last'.op = "init" /\ last'.analysis_name = "") =>
        /\ rng' # rng =>
              (last'.trials > 0 /\ \A f \in AllFields : ~IsSome(disk.td[f]))
        /\ \A f \in AllFields : IsSome(disk.td[f]) => disk'.td[f] = disk.td[f]

C7_OpenNeverRegenerates == [][C7_OpenStep]_vars

----------------------------------------------------------------------------
(* C8 *)

\* run_field saves its tables in this step
Saving == rf.pc = "loop" /\ rf'.pc = "returned"

\* the rows of a file, none when the file does not exist
LinesOf(o) == IF IsSome(o) THEN Get(o).lines ELSE <<>>

\* C8 as stated: when run_field saves, every row the results and failures
\* files held for a trial number outside the requested ones is still there.
C8_SaveKeepsOtherRows ==
    Saving =>
        /\ \A i \in DOMAIN LinesOf(disk.res[rf.field]) :
              LinesOf(disk.res[rf.field])[i][1] \notin Range(rf.nums) =>
                 LinesOf(disk.res[rf.field])[i] \in Range(LinesOf(disk'.res[rf.field]))
        /\ \A i \in DOMAIN LinesOf(disk.fail[rf.field]) :
              LinesOf(disk.fail[rf.field])[i][1] \notin Range(rf.nums) =>
                 LinesOf(disk.fail[rf.field])[i] \in Range(LinesOf(disk'.fail[rf.field]))

C8_RerunKeepsOtherRows == [][C8_SaveKeepsOtherRows]_vars

\* C8, amended: when run_field saves, the results and failures files of its
\* field are replaced: afterwards every row in them is of a requested trial
\* number, so the rows earlier runs left for other trial numbers are gone; the
\* files of the other fields, the trial data, the template and the metadata
\* are unchanged.
C8_SaveReplaces ==
    Saving =>
        /\ \A i \in DOMAIN LinesOf(disk'.res[rf.field]) :
              LinesOf(disk'.res[rf.field])[i][1] \in Range(rf.nums)
        /\ \A i \in DOMAIN LinesOf(disk'.fail[rf.field]) :
              LinesOf(disk'.fail[rf.field])[i][1] \in Range(rf.nums)
        /\ IsSome(disk'.res[rf.field]) /\ IsSome(disk'.fail[rf.field])
        /\ \A f \in AllFields \ {rf.field} :
              disk'.res[f] = disk.res[f] /\ disk'.fail[f] = disk.fail[f]
        /\ disk'.td = disk.td /\ disk'.model = disk.model /\ disk'.meta = disk.meta

C8_RerunReplacesTables == [][C8_SaveReplaces]_vars

\* a re-run of a field is about to save while the files of that field hold
\* rows, from the earlier run, for trial numbers it was not asked for
C8_Witness ==
    /\ rf.pc = "loop" /\ rf.i > Len(rf.nums) /\ rf.nums # <<>>
    /\ \E i \in DOMAIN LinesOf(disk.res[rf.field]) :
          LinesOf(disk.res[rf.field])[i][1] \notin Range(rf.nums)

----------------------------------------------------------------------------
(* C9 *)

\* the template gives an explicit value, for field f, to the attribute a
\* distribution name denotes
Pinned(f, name) ==
    LET fld == model_files.fields[f]
    IN IF Len(name) = 1 THEN fld.attrs[name[1]].explicit
       ELSE IF name[1] = "Field" THEN fld.attrs[name[2]].explicit
       ELSE IF name[1] = "Analysis" THEN model_files.analysis.attrs[name[2]].explicit
       ELSE /\ name[1] \in DOMAIN fld.procs
            /\ name[2] \in DOMAIN fld.procs[name[1]]
            /\ fld.procs[name[1]][name[2]].explicit

\* the registered distributions that are active for field f
ActiveFor(f) == {i \in DOMAIN instances : ~Pinned(f, instances[i].full_name)}

\* C9: a trial data file of a field has a column for a registered
\* distribution exactly when the template gives that field no explicit value
\* for the distribution's attribute, whatever holds for the other fields; no
\* file without columns is ever written; and new() or generate() over a field
\* for which no distribution is active ends in a UserError.
C9_ColumnsAreTheFreeDistributions ==
    /\ \A f \in AllFields :
          IsSome(disk.td[f]) =>
             LET cols == Tail(Get(disk.td[f]).header)
             IN /\ cols # <<>>
                /\ \A i \in DOMAIN instances :
                      ColumnName(instances[i]) \in Range(cols) <=> i \in ActiveFor(f)
    /\ ( /\ last.op = "new" /\ last.trials > 0
         /\ last.analysis_name = AnalysisName
         /\ (last.existed => last.overwrite)
         /\ \E f \in Range(NewFields(last.field_names)) : ActiveFor(f) = {} )
       => last.err = "McsUserError"
    /\ ( /\ last.op = "generate"
         /\ \E f \in DOMAIN Get(Get(sim).model).fields : ActiveFor(f) = {} )
       => last.err = "McsUserError"

\* the same distribution is sampled for one field and skipped for the other
C9_Witness ==
    /\ IsSome(disk.td["F1"]) /\ IsSome(disk.td["F2"])
    /\ Tail(Get(disk.td["F1"]).header) = << <<"B">> >>
    /\ Tail(Get(disk.td["F2"]).header) = << <<"A">>, <<"B">> >>

----------------------------------------------------------------------------
(* C10 *)

\* the trial count generate() works with in the step that is being taken
TrialsInEffect ==
    IF last'.op = "generate" THEN Get(sim').trials
    ELSE IF last'.analysis_name # "" THEN last'.trials
    ELSE Get(disk.meta).trials

\* C10: a trial data file written for T >= 1 trials and a field with k active
\* distributions has the header trial_num followed by k column names, and
\* exactly T rows of k values each, indexed 0, 1, .., T-1 in this order.
C10_GenerateStep ==
    \A f \in AllFields :
       (disk'.td[f] # disk.td[f] /\ IsSome(disk'.td[f]) /\ TrialsInEffect >= 1) =>
          LET file == Get(disk'.td[f])
              k == Cardinality(ActiveFor(f))
          IN /\ file.header[1] = <<TRIAL_NUM>>
             /\ Len(file.header) = k + 1
             /\ Len(file.lines) = TrialsInEffect
             /\ \A t \in DOMAIN file.lines :
                   file.lines[t][1] = t - 1 /\ Len(file.lines[t]) = k + 1

C10_TableShape == [][C10_GenerateStep]_vars

\* a table of the largest trial count and two columns has been written
C10_Witness ==
    /\ IsSome(disk.td["F2"])
    /\ Len(Get(disk.td["F2"]).lines) = MaxTrials
    /\ Len(Get(disk.td["F2"]).header) = 3
    /\ last.err = ""

----------------------------------------------------------------------------
(* C11 *)

\* C11: no trial data file has two columns of the same name, whatever the
\* registry holds.
C11_NoDuplicateColumns ==
    \A f \in AllFields :
       IsSome(disk.td[f]) =>
          LET hdr == Get(disk.td[f]).header
          IN \A i, j \in DOMAIN hdr : hdr[i] = hdr[j] => i = j

----------------------------------------------------------------------------
(* The distribution registry and read_distributions *)

\* get_frozen_rv(shape, **kwargs): the frozen random variable, known here by
\* the shape and the arguments it was built from
get_frozen_rv(shape, args) == [shape |-> shape, args |-> args]

\* Distribution.distro_by_name(name): instances.get(name)
distro_by_name(reg, name) ==
    LET at == {i \in DOMAIN reg : reg[i].full_name = name}
    IN IF at = {} THEN None ELSE Some(reg[CHOOSE i \in at : TRUE])

\* a constructor that stores the object before it has split the name
NewDistributionStoresFirst(reg, full_name, rv) ==
    IF BadName(full_name)
    THEN [err |-> "McsUserError", reg |-> Register(reg, Distribution(full_name, rv))]
    ELSE [err |-> "", reg |-> Register(reg, Distribution(full_name, rv))]

\* Distribution(full_name, rv) as a call: the registry afterwards, or the
\* McsUserError raised for a name split_attr_name rejects
NewDistribution(reg, full_name, rv) ==
    IF BadName(full_name) THEN [err |-> "McsUserError", reg |-> reg]
    ELSE [err |-> "", reg |-> Register(reg, Distribution(full_name, rv))]

\* probabilities are held in hundredths
ProbOne == 100
ProbHalf == 50

\* the empty string in the variable_name cell
NoName == <<"">>

\* str.lower() on the distribution_type cell
lower(s) ==
    CASE s = "Uniform" -> "uniform"
      [] s = "NORMAL" -> "normal"
      [] OTHER -> s

\* a row of the distributions CSV after fillna(''): an empty cell is None
Row(type, name, low, high, mean, sd, prob) ==
    [distribution_type |-> type, variable_name |-> name, low_bound |-> low,
     high_bound |-> high, mean |-> mean, SD |-> sd, default_value |-> low,
     prob_of_yes |-> prob, pathname |-> "f.csv"]

\* the body of read_distributions' loop up to the construction of the random
\* variable, without the test `if low == high` of the triangular shape
RowRvTriangleUnchecked(row) ==
    LET shape == lower(row.distribution_type)
        low == row.low_bound
        high == row.high_bound
        Skip == [act |-> "skip", rv |-> None]
        Build(rv) == [act |-> "build", rv |-> Some(rv)]
    IN IF row.variable_name = NoName THEN Skip
       ELSE IF low = None /\ high = None /\ row.mean = None
               /\ row.prob_of_yes = None /\ shape # "empirical" THEN Skip
       ELSE IF shape = "binary"
       THEN IF row.prob_of_yes = Some(0) \/ row.prob_of_yes = Some(ProbOne) THEN Skip
            ELSE Build(get_frozen_rv("weighted_binary",
                       <<IF row.prob_of_yes = None THEN Some(ProbHalf)
                         ELSE row.prob_of_yes>>))
       ELSE IF shape = "uniform"
       THEN IF low = high THEN Skip
            ELSE Build(get_frozen_rv("uniform", <<low, high>>))
       ELSE IF shape = "triangular"
       THEN Build(get_frozen_rv("triangle", <<low, row.default_value, high>>))
       ELSE IF shape = "normal"
       THEN IF row.SD = Some(0) THEN Skip
            ELSE IF low = None \/ high = None
            THEN Build(get_frozen_rv("normal", <<row.mean, row.SD>>))
            ELSE Build(get_frozen_rv("truncated_normal",
                                     <<row.mean, row.SD, low, high>>))
       ELSE IF shape = "lognormal"
       THEN IF row.SD = Some(0) THEN Skip
            ELSE IF low = None \/ high = None
            THEN Build(get_frozen_rv("lognormal", <<row.mean, row.SD>>))
            ELSE Build(get_frozen_rv("truncated_lognormal",
                                     <<row.mean, row.SD, low, high>>))
       ELSE IF shape = "empirical"
       THEN Build(get_frozen_rv("empirical", <<row.pathname, row.variable_name>>))
       ELSE [act |-> "raise", rv |-> None]

\* the body of read_distributions' loop with a final `else: continue`: a shape
\* it does not know is passed over
RowRvUnknownIsSkipped(row) ==
    LET shape == lower(row.distribution_type)
        low == row.low_bound
        high == row.high_bound
        Skip == [act |-> "skip", rv |-> None]
        Build(rv) == [act |-> "build", rv |-> Some(rv)]
    IN IF row.variable_name = NoName THEN Skip
       ELSE IF low = None /\ high = None /\ row.mean = None
               /\ row.prob_of_yes = None /\ shape # "empirical" THEN Skip
       ELSE IF shape = "binary"
       THEN IF row.prob_of_yes = Some(0) \/ row.prob_of_yes = Some(ProbOne) THEN Skip
            ELSE Build(get_frozen_rv("weighted_binary",
                       <<IF row.prob_of_yes = None THEN Some(ProbHalf)
                         ELSE row.prob_of_yes>>))
       ELSE IF shape = "uniform"
       THEN IF low = high THEN Skip
            ELSE Build(get_frozen_rv("uniform", <<low, high>>))
       ELSE IF shape = "triangular"
       THEN IF low = high THEN Skip
            ELSE Build(get_frozen_rv("triangle", <<low, row.default_value, high>>))
       ELSE IF shape = "normal"
       THEN IF row.SD = Some(0) THEN Skip
            ELSE IF low = None \/ high = None
            THEN Build(get_frozen_rv("normal", <<row.mean, row.SD>>))
            ELSE Build(get_frozen_rv("truncated_normal",
                                     <<row.mean, row.SD, low, high>>))
       ELSE IF shape = "lognormal"
       THEN IF row.SD = Some(0) THEN Skip
            ELSE IF low = None \/ high = None
            THEN Build(get_frozen_rv("lognormal", <<row.mean, row.SD>>))
            ELSE Build(get_frozen_rv("truncated_lognormal",
                                     <<row.mean, row.SD, low, high>>))
       ELSE IF shape = "empirical"
       THEN Build(get_frozen_rv("empirical", <<row.pathname, row.variable_name>>))
       ELSE Skip

\* the body of read_distributions' loop up to the construction of the random
\* variable: skip the row, raise McsSystemError, or build
RowRv(row) ==
    LET shape == lower(row.distribution_type)
        low == row.low_bound
        high == row.high_bound
        Skip == [act |-> "skip", rv |-> None]
        Build(rv) == [act |-> "build", rv |-> Some(rv)]
    IN IF row.variable_name = NoName THEN Skip
       ELSE IF low = None /\ high = None /\ row.mean = None
               /\ row.prob_of_yes = None /\ shape # "empirical" THEN Skip
       ELSE IF shape = "binary"
       THEN IF row.prob_of_yes = Some(0) \/ row.prob_of_yes = Some(ProbOne) THEN Skip
            ELSE Build(get_frozen_rv("weighted_binary",
                       <<IF row.prob_of_yes = None THEN Some(ProbHalf)
                         ELSE row.prob_of_yes>>))
       ELSE IF shape = "uniform"
       THEN IF low = high THEN Skip
            ELSE Build(get_frozen_rv("uniform", <<low, high>>))
       ELSE IF shape = "triangular"
       THEN IF low = high THEN Skip
            ELSE Build(get_frozen_rv("triangle", <<low, row.default_value, high>>))
       ELSE IF shape = "normal"
       THEN IF row.SD = Some(0) THEN Skip
            ELSE IF low = None \/ high = None
            THEN Build(get_frozen_rv("normal", <<row.mean, row.SD>>))
            ELSE Build(get_frozen_rv("truncated_normal",
                                     <<row.mean, row.SD, low, high>>))
       ELSE IF shape = "lognormal"
       THEN IF row.SD = Some(0) THEN Skip
            ELSE IF low = None \/ high = None
            THEN Build(get_frozen_rv("lognormal", <<row.mean, row.SD>>))
            ELSE Build(get_frozen_rv("truncated_lognormal",
                                     <<row.mean, row.SD, low, high>>))
       ELSE IF shape = "empirical"
       THEN Build(get_frozen_rv("empirical", <<row.pathname, row.variable_name>>))
       ELSE [act |-> "raise", rv |-> None]

\* read_distributions(pathname) on the rows of the file: the registry
\* afterwards, the registrations it made, and the exception that ended it
read_distributions(reg, rows) ==
    LET RECURSIVE loop(_, _, _)
        loop(i, r, made) ==
            IF i > Len(rows) THEN [err |-> "", reg |-> r, made |-> made]
            ELSE Bind(RowRv(rows[i]), LAMBDA b :
                   IF b.act = "skip" THEN loop(i + 1, r, made)
                   ELSE IF b.act = "raise"
                   THEN [err |-> "McsSystemError", reg |-> r, made |-> made]
                   ELSE Bind(NewDistribution(r, rows[i].variable_name, Get(b.rv)),
                             LAMBDA c :
                          IF c.err # "" THEN [err |-> c.err, reg |-> r, made |-> made]
                          ELSE loop(i + 1, c.reg,
                                    Append(made, <<rows[i].variable_name,
                                                   Get(b.rv)>>))))
    IN loop(1, reg, <<>>)

\* the rows a distributions file may hold
RowA == Row("uniform", <<"A">>, Some(1), Some(2), None, None, None)
RowNormalA == Row("NORMAL", <<"A">>, None, None, Some(5), Some(1), None)
RowUnknown == Row("weibull", <<"B">>, Some(1), Some(2), None, None, None)
RowBadName == Row("uniform", <<"a", "b", "c">>, Some(1), Some(2), None, None, None)

Rows ==
    { RowA, RowNormalA, RowUnknown, RowBadName,
      Row("uniform", <<"A">>, Some(2), Some(2), None, None, None),
      Row("Uniform", <<"B">>, Some(1), Some(3), None, None, None),
      Row("uniform", <<"B">>, None, None, Some(1), None, None),
      Row("triangular", <<"B">>, Some(1), Some(1), None, None, None),
      Row("triangular", <<"Proc", "X">>, Some(1), Some(3), None, None, None),
      Row("normal", <<"A">>, None, None, Some(5), Some(0), None),
      Row("lognormal", <<"B">>, Some(1), Some(2), Some(1), Some(0), None),
      Row("lognormal", <<"B">>, Some(1), Some(3), Some(1), Some(2), None),
      Row("binary", <<"Field", "A">>, None, None, None, None, Some(0)),
      Row("binary", <<"Field", "A">>, None, None, None, None, Some(ProbOne)),
      Row("binary", <<"Field", "A">>, None, None, None, None, Some(30)),
      Row("binary", <<"Field", "A">>, Some(0), Some(1), None, None, None),
      Row("empirical", <<"A">>, None, None, None, None, None),
      Row("uniform", NoName, Some(1), Some(2), None, None, None),
      Row("uniform", <<"A">>, None, None, None, None, None),
      Row("weibull", <<"A">>, None, None, None, None, None) }

\* the files read_distributions is given: one row, or two rows of which the
\* first ends the read, repeats the name of the second or is skipped
RowFiles ==
    {<<r>> : r \in Rows}
    \cup { <<RowUnknown, RowA>>, <<RowBadName, RowA>>, <<RowA, RowNormalA>>,
           <<RowA, RowUnknown>>, <<RowBadName, RowUnknown>>,
           <<Row("weibull", <<"A">>, None, None, None, None, None), RowA>>,
           <<Row("uniform", NoName, Some(1), Some(2), None, None, None), RowA>> }

\* the names and random variables of programmatic registrations
CallNames == {<<"A">>, <<"B">>, <<"Field", "A">>, <<"a", "b", "c">>}
CallRvs == {get_frozen_rv("uniform", <<Some(1), Some(2)>>),
            get_frozen_rv("custom", <<>>)}

\* the registry of a process that has registered nothing yet
InitReg ==
    /\ instances = <<>>
    /\ log = <<>>
    /\ model_files = XmlFree
    /\ rng = 0
    /\ disk = NoDisk
    /\ sim = None
    /\ rf = Idle
    /\ ra = NoRun
    /\ last = NoCall
    /\ calls = 0

\* Distribution(name, rv)
DistributionCall ==
    /\ calls < MaxCalls
    /\ \E n \in CallNames, rv \in CallRvs :
          \E r \in {NewDistribution(instances, n, rv)} :
             /\ instances' = r.reg
             /\ log' = IF r.err = "" THEN Append(log, <<n, rv>>) ELSE log
             /\ last' = [NoCall EXCEPT !.op = "Distribution", !.err = r.err,
                            !.name = n]
    /\ calls' = calls + 1
    /\ UNCHANGED <<model_files, rng, disk, sim, rf, ra>>

\* read_distributions(pathname)
ReadDistributionsCall ==
    /\ calls < MaxCalls
    /\ \E rows \in RowFiles :
          \E r \in {read_distributions(instances, rows)} :
             /\ instances' = r.reg
             /\ log' = log \o r.made
             /\ last' = [NoCall EXCEPT !.op = "read_distributions", !.err = r.err,
                            !.rows = rows]
    /\ calls' = calls + 1
    /\ UNCHANGED <<model_files, rng, disk, sim, rf, ra>>

NextReg ==
    \/ DistributionCall
    \/ ReadDistributionsCall

SpecReg == InitReg /\ [][NextReg]_vars

----------------------------------------------------------------------------
(* C12 *)

\* the names registrations are made under, and one that never is
NameUniverse ==
    CallNames \cup {r.variable_name : r \in Rows} \cup {<<"Z">>}

\* the places in the log where name n was registered
LoggedAt(n) == {k \in DOMAIN log : log[k][1] = n}

\* C12: after any sequence of Distribution(name, rv) calls and
\* read_distributions runs, the registry has one entry for each name that was
\* registered and no other, distro_by_name(name) is the entry made by the
\* latest registration of that name, and it is None for a name that was never
\* registered.
C12_OneEntryPerNameLastWins ==
    /\ \A i, j \in DOMAIN instances :
          instances[i].full_name = instances[j].full_name => i = j
    /\ {instances[i].full_name : i \in DOMAIN instances}
          = {log[k][1] : k \in DOMAIN log}
    /\ \A n \in NameUniverse :
          IF LoggedAt(n) = {} THEN distro_by_name(instances, n) = None
          ELSE LET k == CHOOSE k \in LoggedAt(n) : \A m \in LoggedAt(n) : m <= k
                   e == distro_by_name(instances, n)
               IN IsSome(e) /\ Get(e).full_name = n /\ Get(e).rv = log[k][2]

\* a name a call registered was registered again, with another random
\* variable, by read_distributions
C12_Witness ==
    /\ last.op = "read_distributions" /\ last.err = ""
    /\ \E j, k \in DOMAIN log :
          j < k /\ log[j][1] = log[k][1] /\ log[j][2] # log[k][2]
          /\ log[j][2].shape = "custom"

----------------------------------------------------------------------------
(* C13 *)

KnownShapes == {"binary", "uniform", "triangular", "normal", "lognormal", "empirical"}

\* the row meets the degenerate condition of its shape
Degenerate(row) ==
    LET shape == lower(row.distribution_type)
    IN \/ shape \in {"uniform", "triangular"} /\ row.low_bound = row.high_bound
       \/ shape \in {"normal", "lognormal"} /\ row.SD = Some(0)
       \/ shape = "binary" /\ row.prob_of_yes \in {Some(0), Some(ProbOne)}

\* the row has no bounds, mean or prob_of_yes and is not empirical
Unparameterised(row) ==
    /\ row.low_bound = None /\ row.high_bound = None /\ row.mean = None
    /\ row.prob_of_yes = None
    /\ lower(row.distribution_type) # "empirical"

\* the rows C13 wants registered
Eligible(row) ==
    /\ lower(row.distribution_type) \in KnownShapes
    /\ row.variable_name # NoName
    /\ ~Unparameterised(row)
    /\ ~Degenerate(row)

\* the rows at which read_distributions raises: an unknown shape, or a name
\* Distribution rejects
Raises(row) ==
    /\ row.variable_name # NoName
    /\ ~Unparameterised(row)
    /\ \/ lower(row.distribution_type) \notin KnownShapes
       \/ Eligible(row) /\ Len(row.variable_name) > 2

\* the names the step registered, in order
NewlyRegistered == [k \in 1..(Len(log') - Len(log)) |-> log'[Len(log) + k][1]]

ReadStep == calls' = calls + 1 /\ last'.op = "read_distributions"

\* C13 as stated: a run of read_distributions registers exactly the rows of a
\* known shape that have a name, some parameter, and are not degenerate.
C13_AllEligibleStep ==
    ReadStep =>
        NewlyRegistered =
            LET el == SelectSeq(last'.rows, Eligible)
            IN [k \in DOMAIN el |-> el[k].variable_name]

C13_EligibleUntilRaiseStep ==
    ReadStep =>
        LET rows == last'.rows
            stops == {i \in DOMAIN rows : Raises(rows[i])}
            n == IF stops = {} THEN Len(rows)
                 ELSE (CHOOSE i \in stops : \A j \in stops : i <= j) - 1
            el == SelectSeq(SubSeq(rows, 1, n), Eligible)
        IN /\ NewlyRegistered = [k \in DOMAIN el |-> el[k].variable_name]
           /\ (last'.err # "") <=> (stops # {})

----------------------------------------------------------------------------
(* C14 *)

\* run_field is about to execute a trial number that the trial data file of
\* its field does not hold
AbsentTrial ==
    /\ rf.pc = "loop" /\ rf.i <= Len(rf.nums)
    /\ IsSome(disk.td[rf.field])
    /\ rf.nums[rf.i] \notin TrialsOf(Get(disk.td[rf.field]))

\* C14 as stated: a trial number absent from the trial data makes run_field
\* end with a McsSystemError raised to its caller.
C14_AbsentTrialRaisesStep ==
    AbsentTrial => (rf'.pc = "raised" /\ last'.err = "McsSystemError")

C14_AbsentTrialRaises == [][C14_AbsentTrialRaisesStep]_vars

\* C14, amended: a trial number absent from the trial data raises a
\* McsSystemError inside the try block of that trial; run_field catches it,
\* records (t, the error) as a failure of that trial, goes on with the next
\* trial number, and nothing is raised to the caller.
C14_AbsentTrialRecordedStep ==
    AbsentTrial =>
        /\ rf'.failures = Append(rf.failures, <<rf.nums[rf.i], "McsSystemError">>)
        /\ rf'.results = rf.results
        /\ rf'.pc = "loop" /\ rf'.i = rf.i + 1
        /\ rf'.completed = rf.completed
        /\ last' = last

C14_AbsentTrialIsRecordedFailure == [][C14_AbsentTrialRecordedStep]_vars

\* run_field has returned a count after it was asked for a trial number its
\* table does not hold and for one it holds
C14_Witness ==
    /\ rf.pc = "returned" /\ last.err = "" /\ last.ret = 1
    /\ rf.nums = <<MaxTrials, 0>>
    /\ IsSome(disk.td[rf.field])
    /\ Get(disk.fail[rf.field]).lines = << <<MaxTrials, "McsSystemError">> >>

----------------------------------------------------------------------------
(* C15 *)

\* Simulation(sim_dir, trials=t, field_names=fn) is called on a directory
\* whose metadata does not hold one of the names in fn, or holds another
\* trial count than the t > 0 asked for
MismatchedReload ==
    /\ calls' = calls + 1 /\ last'.op = "init" /\ last'.analysis_name = ""
    /\ IsSome(disk.meta) /\ IsSome(Get(disk.meta).field_names)
    /\ \/ /\ IsSome(last'.field_names)
          /\ ~(Range(Get(last'.field_names))
                  \subseteq Range(Get(Get(disk.meta).field_names)))
       \/ last'.trials > 0 /\ last'.trials # Get(disk.meta).trials

\* C15: reloading a directory with a field name its metadata does not hold,
\* or with a trial count other than the stored one, raises a McsUserError and
\* leaves the directory as it was: no trial data is generated.
C15_MismatchStep ==
    MismatchedReload => (last'.err = "McsUserError" /\ disk' = disk /\ sim' = sim)

C15_MismatchedReloadIsUserError == [][C15_MismatchStep]_vars

----------------------------------------------------------------------------
(* Simulation.run *)

\* a model in which the first field is disabled
XmlDisabled ==
    [analysis |-> [name |-> AnalysisName, attrs |-> [n \in {"G"} |-> Attr(0, FALSE)],
                   fields |-> FieldNames],
     fields |-> [f \in AllFields |-> FieldElt(FALSE, FALSE, TRUE, f # "F1")]]

\* registry, model files and field_names argument of the new() that made the
\* simulation; a disabled field is part of it only when it is named
RunScenarios ==
    { <<RegisterAll(<<<<"A">>, <<"B">>>>), XmlFree, None>>,
      <<RegisterAll(<<<<"B">>>>), XmlPinned, None>>,
      <<RegisterAll(<<<<"A">>, <<"B">>>>), XmlDisabled, Some(FieldNames)>> }

\* the trial_nums and field_names arguments of run()
RunNumArgs == {None, Some(<<0>>), Some(<<MaxTrials>>), Some(<<MaxTrials, 0>>)}
RunFieldArgs == {None, Some(<<"F2", "F1">>), Some(<<"F1">>), Some(<<"F1", "F9">>)}

\* the Simulation object and directory after Simulation.new(sim_dir, ...,
\* analysis, t, field_names) on a fresh path; the object is the one new()
\* returned or, when reopened, the one Simulation(sim_dir) builds afterwards
InitAll ==
    /\ \E sc \in RunScenarios, t \in 1..MaxTrials, reopened \in BOOLEAN :
          \E n \in {SimulationNew(sc[1], NoDisk, 0, sc[2], AnalysisName, t,
                                    sc[3], FALSE)} :
          \E o \in {Construct(sc[1], n.disk, n.rng, "", 0, None, FALSE)} :
             /\ IF reopened THEN o.err = "" ELSE n.err = ""
             /\ instances = sc[1]
             /\ model_files = sc[2]
             /\ disk = n.disk
             /\ rng = n.rng
             /\ sim = IF reopened THEN o.sim ELSE n.sim
             /\ last = [NoCall EXCEPT !.op = IF reopened THEN "init" ELSE "new",
                           !.analysis_name = IF reopened THEN "" ELSE AnalysisName,
                           !.trials = IF reopened THEN 0 ELSE t,
                           !.field_names = IF reopened THEN None ELSE sc[3]]
    /\ log = LogOf(instances)
    /\ rf = Idle
    /\ ra = NoRun
    /\ calls = 0

\* sim.run(trial_nums, field_names) is entered: the fields are looked up
RunBegin ==
    /\ rf.pc # "loop" /\ ra.pc # "fields" /\ calls < MaxRuns
    /\ \E tn \in RunNumArgs, fn \in RunFieldArgs :
          \E cf \in {IF Truthy(fn)
                     THEN IF Range(Get(fn))
                               \subseteq Range(Get(Get(sim).model).analysis.fields)
                          THEN [err |-> "", fields |-> Get(fn)]
                          ELSE [err |-> "OpgeeException", fields |-> <<>>]
                     ELSE ChosenFields(Get(sim))} :
             /\ ra' = [NoRun EXCEPT !.pc = IF cf.err = "" THEN "fields" ELSE "raised",
                                    !.fields = cf.fields, !.k = 1, !.nums = tn]
             /\ last' = [NoCall EXCEPT !.op = "run", !.err = cf.err,
                            !.existed = disk.exists, !.field_names = fn]
    /\ rf' = Idle
    /\ calls' = calls + 1
    /\ UNCHANGED <<instances, log, model_files, rng, disk, sim>>

\* a loop that runs every field of the selection, enabled or not
NextFieldIgnoresEnabled(r, s) ==
    [run |-> TRUE,
     ra |-> [r EXCEPT !.k = @ + 1, !.invoked = Append(@, r.fields[r.k])]]

\* one pass of run()'s loop over the fields: whether run_field is called for
\* the field, and the record of the fields passed
NextField(r, s) ==
    LET f == r.fields[r.k]
    IN IF Get(s.model).fields[f].enabled
       THEN [run |-> TRUE, ra |-> [r EXCEPT !.k = @ + 1, !.invoked = Append(@, f)]]
       ELSE [run |-> FALSE, ra |-> [r EXCEPT !.k = @ + 1, !.skipped = Append(@, f)]]

\* the next field of run()'s loop: run_field is entered for an enabled field,
\* a disabled one is passed over
RunNextField ==
    /\ ra.pc = "fields" /\ rf.pc \notin {"loop", "raised"}
    /\ ra.k <= Len(ra.fields)
    /\ \E n \in {NextField(ra, Get(sim))} :
          /\ ra' = n.ra
          /\ rf' = IF n.run
                   THEN [Idle EXCEPT !.pc = "loop", !.field = ra.fields[ra.k], !.i = 1,
                            !.nums = IF IsSome(ra.nums) THEN Get(ra.nums)
                                     ELSE [k \in 1..Get(sim).trials |-> k - 1]]
                   ELSE rf
    /\ UNCHANGED <<instances, log, model_files, rng, disk, sim, last, calls>>

\* run() is over: its loop is exhausted, or run_field raised
RunEnd ==
    /\ ra.pc = "fields" /\ rf.pc # "loop"
    /\ IF rf.pc = "raised" THEN TRUE ELSE ra.k > Len(ra.fields)
    /\ ra' = [ra EXCEPT !.pc = IF rf.pc = "raised" THEN "raised" ELSE "done"]
    /\ UNCHANGED <<instances, log, model_files, rng, disk, sim, rf, last, calls>>

NextAll ==
    \/ RunBegin
    \/ RunNextField
    \/ RunEnd
    \/ RunFieldBegin
    \/ RunTrial
    \/ RunFieldEnd

\* run() over the fields, and run_field() called on a field directly
SpecAll == InitAll /\ [][NextAll]_vars

----------------------------------------------------------------------------
(* C16 *)

\* C16: every pass through run_field's loop, whatever is raised in it and
\* wherever, ends with one more row (a result or a failure of that trial
\* number) and the loop going on; run_field never ends by raising.
C16_TrialStep ==
    (rf.pc = "loop" /\ rf.i <= Len(rf.nums)) =>
        /\ rf'.pc = "loop" /\ rf'.i = rf.i + 1
        /\ \/ /\ rf'.results = rf.results
              /\ Len(rf'.failures) = Len(rf.failures) + 1
              /\ rf'.failures[Len(rf'.failures)][1] = rf.nums[rf.i]
           \/ /\ rf'.failures = rf.failures
              /\ Len(rf'.results) = Len(rf.results) + 1
              /\ rf'.results[Len(rf'.results)][1] = rf.nums[rf.i]

C16_EveryExceptionIsRecorded == [][C16_TrialStep]_vars

----------------------------------------------------------------------------
(* C17 *)

\* the field is enabled in the model
Enabled(f) == model_files.fields[f].enabled

\* C17: when run() returns, run_field was entered once for each selected
\* field that is enabled, in the order of the selection, and for no disabled
\* field, however many trials of the fields before it completed; and, until
\* another call is made, the results and failures files of each of them hold
\* the trial numbers of this run.
C17_RunInvokesEnabledFieldsInOrder ==
    /\ ra.pc \in {"fields", "done"} =>
          /\ ra.invoked = SelectSeq(SubSeq(ra.fields, 1, ra.k - 1), Enabled)
          /\ ra.skipped = SelectSeq(SubSeq(ra.fields, 1, ra.k - 1),
                                    LAMBDA f : ~Enabled(f))
    /\ (ra.pc = "done" /\ last.op = "run") =>
          /\ ra.k = Len(ra.fields) + 1
          /\ \A i \in DOMAIN ra.invoked :
                LET f == ra.invoked[i]
                    nums == IF IsSome(ra.nums) THEN Get(ra.nums)
                            ELSE [k \in 1..Get(sim).trials |-> k - 1]
                IN /\ IsSome(disk.res[f]) /\ IsSome(disk.fail[f])
                   /\ TrialsOf(Get(disk.res[f])) \cup TrialsOf(Get(disk.fail[f]))
                         = Range(nums)

\* run() has returned after a field that completed no trial was followed by a
\* field that completed one
C17_Witness ==
    /\ ra.pc = "done" /\ last.op = "run" /\ Len(ra.invoked) = 2
    /\ Get(disk.res[ra.invoked[1]]).lines = <<>>
    /\ Get(disk.fail[ra.invoked[1]]).lines # <<>>
    /\ Get(disk.res[ra.invoked[2]]).lines # <<>>

----------------------------------------------------------------------------
(* C18 *)

\* the rows of a sequence of rows that are of trial number t
RowsFor(rows, t) == {rows[i] : i \in {j \in DOMAIN rows : rows[j][1] = t}}

\* an earlier run_field of the field of the current run has saved its tables
EarlierRun == rf.pc = "loop" /\ IsSome(disk.res[rf.field])

\* C18: while run_field runs on a field that an earlier run_field of the same
\* Simulation object has run, whatever it records for a trial number t (a
\* result row or a failure) is what the earlier run recorded for t, if that
\* run was asked for t at all, whichever other trial numbers the two runs
\* were asked for and in whichever order.
C18_SameOutcomeInEveryRun ==
    EarlierRun =>
        LET res == Get(disk.res[rf.field]).lines
            fail == Get(disk.fail[rf.field]).lines
        IN \A t \in TrialsOf([lines |-> res]) \cup TrialsOf([lines |-> fail]) :
              /\ RowsFor(rf.results, t) \subseteq RowsFor(res, t)
              /\ RowsFor(rf.failures, t) \subseteq RowsFor(fail, t)

----------------------------------------------------------------------------
(* C19 *)

C19_FrameStep ==
    /\ instances' = instances
    /\ Get(sim').model_xml_string = Get(sim).model_xml_string
    /\ disk'.td = disk.td
    /\ IF IsSome(Get(sim).trial_data_df)
       THEN Get(sim').trial_data_df = Get(sim).trial_data_df
       ELSE \/ Get(sim').trial_data_df = None
            \/ /\ rf.pc = "loop"
               /\ Get(sim').trial_data_df = read_csv(Get(disk.td[rf.field])).df

\* C19: no step of run() or run_field() changes the registry, the cached
\* XML string of the model, a trial-data file, or the table the Simulation
\* object has cached; an object that has no table cached yet may cache the
\* one it reads from the trial-data file of the field it runs.
C19_RunLeavesSharedStateAlone == [][C19_FrameStep]_vars

\* run_field has returned with a trial completed on the table the object holds,
\* which is the field's own as its trial-data file has it, and the graph
\* the object holds is no longer the one the cached XML string describes
C19_Witness ==
    /\ rf.pc = "returned" /\ rf.results # <<>>
    /\ Get(sim).trial_data_df = read_csv(Get(disk.td[rf.field])).df
    /\ Get(sim).model # ModelFileLoad(Get(Get(sim).model_xml_string),
                                      Get(sim).analysis_name,
                                      Get(sim).field_names).model

----------------------------------------------------------------------------
(* C20 *)

\* the sum of g over the set S
RECURSIVE SumOver(_, _)
SumOver(g, S) ==
    IF S = {} THEN 0
    ELSE LET c == CHOOSE x \in S : TRUE IN g[c] + SumOver(g, S \ {c})

\* the field as the evaluation of trial t leaves it: the evaluator applied to
\* the template with row t of the table in use
EvaluationOf(t) ==
    FieldRun(PristineWith(Get(Get(sim').model_xml_string), Get(rf'.handed), rf.field,
                          RowOf(Get(Get(sim').trial_data_df), t)),
             rf.field).model.fields[rf.field]

C20_RowStep ==
    /\ (rf.pc = "loop" /\ Len(rf'.results) > Len(rf.results)) =>
          LET t == rf.nums[rf.i]
              ev == EvaluationOf(t)
              ghg == ev.emissions
          IN rf'.results =
                Append(rf.results,
                       <<t,
                         magnitude(Get(ev.carbon_intensity)),
                         magnitude(SumOver(ghg, Categories)),
                         magnitude(ghg["Combustion"]),
                         magnitude(ghg["Land-use"]),
                         magnitude(ghg["Venting"] + ghg["Flaring"] + ghg["Fugitives"]),
                         magnitude(ghg["Other"])>>)
    /\ (rf.pc = "loop" /\ rf'.pc = "returned") =>
          /\ Get(disk'.res[rf.field]).header = ResultCols
          /\ Get(disk'.res[rf.field]).lines = rf.results

\* C20: the row run_field appends for trial number t is (t, CI, total_GHG,
\* combustion, land_use, VFF, other) of the evaluation of trial t, each value
\* as magnitude() rounds it: the carbon intensity, the sum of the GHG row over
\* all categories, Combustion, Land-use, Venting + Flaring + Fugitives, Other;
\* rows appended earlier are kept as they are, and the rows are written under
\* these column names when run_field returns.
C20_RowHoldsItsTrialsValues == [][C20_RowStep]_vars

\* two rows of two different trial numbers with different values were written
C20_Witness ==
    /\ rf.pc = "returned" /\ Len(rf.results) = 2
    /\ Get(disk.res[rf.field]).lines = rf.results
    /\ \A c \in {1, 2, 3, 4, 6} : rf.results[1][c] # rf.results[2][c]

----------------------------------------------------------------------------
(* C21 *)

\* the row has a name and a distribution_type that is none of the six shapes
UnknownNamed(row) ==
    row.variable_name # NoName /\ lower(row.distribution_type) \notin KnownShapes

\* what the step registered is the start of what the rows of a known shape
\* would have registered
OnlyKnownShapesRegistered ==
    LET el == SelectSeq(last'.rows, Eligible)
    IN /\ Len(NewlyRegistered) <= Len(el)
       /\ \A k \in DOMAIN NewlyRegistered : NewlyRegistered[k] = el[k].variable_name

\* C21 as stated: a run of read_distributions over a file that holds a row
\* with a name and an unknown distribution_type ends in McsSystemError, and no
\* such row is registered.
C21_EveryUnknownStep ==
    ReadStep =>
        /\ (\E i \in DOMAIN last'.rows : UnknownNamed(last'.rows[i]))
              => last'.err = "McsSystemError"
        /\ OnlyKnownShapesRegistered

C21_UnknownShapeAlwaysRaises == [][C21_EveryUnknownStep]_vars

\* C21, amended: a run of read_distributions ends in McsSystemError exactly
\* when the first row at which it stops is a row with a name, with at least
\* one of low_bound, high_bound, mean and prob_of_yes, and with an unknown
\* distribution_type; a row with an unknown distribution_type and none of
\* these four is passed over like any other such row; no row of an unknown
\* distribution_type is registered.
C21_ReachedUnknownStep ==
    ReadStep =>
        LET rows == last'.rows
            stops == {i \in DOMAIN rows : Raises(rows[i])}
            first == CHOOSE i \in stops : \A j \in stops : i <= j
        IN /\ (last'.err = "McsSystemError")
                 <=> (stops # {} /\ UnknownNamed(rows[first]))
           /\ OnlyKnownShapesRegistered

C21_UnknownShapeWithParametersRaises == [][C21_ReachedUnknownStep]_vars

\* read_distributions registered the first row of a file and ended in
\* McsSystemError at the second, which has an unknown distribution_type
C21_Witness ==
    /\ last.op = "read_distributions" /\ last.err = "McsSystemError"
    /\ Len(last.rows) = 2
    /\ Eligible(last.rows[1]) /\ UnknownNamed(last.rows[2])
    /\ log # <<>> /\ log[Len(log)][1] = last.rows[1].variable_name

----------------------------------------------------------------------------
(* C22 *)

C22_ReadMetadataStep ==
    (calls' = calls + 1 /\ last'.op = "read_metadata") =>
        /\ disk' = disk /\ rng' = rng /\ sim' = sim /\ instances' = instances
        /\ ~last'.loaded
        /\ IF disk.exists /\ IsSome(disk.meta)
           THEN last'.err = "" /\ last'.meta = disk.meta
           ELSE last'.err = "McsUserError" /\ last'.meta = None

\* C22: Simulation.read_metadata(sim_dir) on a directory that holds metadata
\* returns the metadata as stored, having read neither the model file nor
\* built a model, drawn no sample and written nothing; on a path that does
\* not exist, or a directory whose metadata file cannot be read, it raises
\* McsUserError; in either case the directory, the registry and an open
\* Simulation object are as before.
C22_ReadMetadataOnlyReads == [][C22_ReadMetadataStep]_vars

\* read_metadata returned the metadata of a directory that holds trial data
C22_Witness ==
    /\ last.op = "read_metadata" /\ last.err = ""
    /\ IsSome(last.meta) /\ last.meta = disk.meta
    /\ \E f \in AllFields : IsSome(disk.td[f])

\* read_metadata raised on a directory that exists but holds no metadata
C22_WitnessNoMetadata ==
    /\ last.op = "read_metadata" /\ last.err = "McsUserError" /\ disk.exists

----------------------------------------------------------------------------
(* C23 *)

\* some registered distribution names a process class the field has none of,
\* or an attribute its owner (the field, the analysis, the process) has not
Unresolved(f) ==
    \E i \in DOMAIN instances :
       LET c == instances[i].class_name
           a == instances[i].attr_name
           elt == model_files.fields[f]
       IN IF c = "Field" THEN a \notin DOMAIN elt.attrs
          ELSE IF c = "Analysis" THEN a \notin DOMAIN model_files.analysis.attrs
          ELSE c \notin DOMAIN elt.procs \/ a \notin DOMAIN elt.procs[c]

\* the step is a call of sim.generate(), or a Simulation.new that gets as far
\* as generate(); the fields it is to generate for
GenerateStep ==
    /\ calls' = calls + 1
    /\ \/ last'.op = "generate"
       \/ /\ last'.op = "new" /\ last'.trials > 0
          /\ last'.analysis_name = AnalysisName
          /\ ~last'.existed \/ last'.overwrite

GenerateStepFields ==
    IF last'.op = "generate"
    THEN Range(ChosenFields(Get(sim)).fields)
    ELSE IF Truthy(last'.field_names) THEN Range(Get(last'.field_names))
    ELSE Range(EnabledFieldNames(model_files))

C23_UnresolvedStep ==
    (GenerateStep /\ \E f \in GenerateStepFields : Unresolved(f)) =>
        /\ last'.err = "McsUserError"
        /\ \A f \in GenerateStepFields :
              Unresolved(f) =>
                 /\ ~IsSome(disk'.td[f])
                 /\ last'.op = "generate" => disk'.td[f] = disk.td[f]

\* C23: generate(), called directly or by Simulation.new, raises McsUserError
\* when one of the fields it is to generate for has no process of the class a
\* registered distribution names, or no attribute of the name it names; no
\* trial data file of such a field is written, and none exists afterwards.
C23_UnresolvedDistributionIsUserError == [][C23_UnresolvedStep]_vars

\* generate() wrote the trial data of the first field and raised at the second,
\* which has no process of the class a distribution names
C23_Witness ==
    /\ last.op \in {"new", "generate"} /\ last.err = "McsUserError"
    /\ IsSome(disk.td["F1"]) /\ ~IsSome(disk.td["F2"])
    /\ Unresolved("F2") /\ ~Unresolved("F1")

----------------------------------------------------------------------------
(* C24 *)

\* how many times trial number t occurs in a sequence of rows or of numbers
Occurrences(rows, t, num(_)) == Cardinality({i \in DOMAIN rows : num(rows[i]) = t})

C24_FilesStep ==
    /\ (rf.pc = "loop" /\ rf'.pc = "loop") =>
          disk'.res = disk.res /\ disk'.fail = disk.fail
    /\ Saving =>
          LET res == Get(disk'.res[rf.field])
              fail == Get(disk'.fail[rf.field])
          IN /\ IsSome(disk'.res[rf.field]) /\ IsSome(disk'.fail[rf.field])
             /\ res.header = <<"trial_num", "CI", "total_GHG", "combustion",
                               "land_use", "VFF", "other">>
             /\ fail.header = <<"trial_num", "message">>
             /\ res.lines = rf.results /\ fail.lines = rf.failures
             /\ Len(res.lines) = last'.ret
             /\ Len(fail.lines) = Len(rf.nums) - last'.ret
             /\ \A i \in DOMAIN res.lines : Len(res.lines[i]) = Len(res.header)
             /\ \A t \in Range(rf.nums) :
                   Occurrences(res.lines, t, LAMBDA r : r[1])
                   + Occurrences(fail.lines, t, LAMBDA r : r[1])
                      = Occurrences(rf.nums, t, LAMBDA n : n)

\* C24: nothing is written to a results or failures file while the trials of
\* run_field run; when it returns, the results file of its field is the header
\* trial_num,CI,total_GHG,combustion,land_use,VFF,other followed by the rows of
\* the trials this run completed and nothing else, as many as the count it
\* returns, and the failures file is the header trial_num,message followed by
\* one row for each trial that failed in this run and nothing else; both are
\* written, whatever they held and even when there are no rows for them.
C24_FilesHoldThisRun == [][C24_FilesStep]_vars

\* run_field has returned a second time for a field, with no trial completed,
\* and the results file of the field is a header only
C24_Witness ==
    /\ rf.pc = "returned" /\ calls >= 2
    /\ rf.results = <<>> /\ rf.failures # <<>>
    /\ disk.res[rf.field] = Some([header |-> ResultCols, lines |-> <<>>])
    /\ Get(disk.fail[rf.field]).lines = rf.failures

----------------------------------------------------------------------------
(* C25 *)

\* the distributions generate() samples for field f, in registry order
SampledFor(f) ==
    SelectSeq(instances,
              LAMBDA dist : LET tgt == lookup(model_files, dist.full_name, f)
                            IN tgt.err = "" /\ ~AttrOf(model_files, f, tgt).explicit)

\* C25: for every trial data file generate() wrote for a field, the k-th
\* column the runner reads back from it resolves, by lookup on that field, to
\* the owner and attribute that the k-th distribution sampled for the field
\* resolves to.
C25_ColumnNamesRoundTrip ==
    \A f \in AllFields :
       IsSome(disk.td[f]) =>
          LET rd == read_csv(Get(disk.td[f]))
              cols == Get(rd.df).cols
              dists == SampledFor(f)
          IN /\ rd.err = ""
             /\ Len(cols) = Len(dists)
             /\ \A k \in DOMAIN dists :
                   LET back == lookup(model_files, cols[k], f)
                   IN /\ back.err = ""
                      /\ back = lookup(model_files, dists[k].full_name, f)

----------------------------------------------------------------------------
(* C26 *)

\* the name has more dot-separated parts than 'CLASS.ATTR'
Malformed(name) == Len(name) > 2

C26_DistributionStep ==
    (calls' = calls + 1 /\ last'.op = "Distribution") =>
        IF Malformed(last'.name)
        THEN last'.err = "McsUserError" /\ instances' = instances
        ELSE last'.err = "" /\ IsSome(distro_by_name(instances', last'.name))

\* C26: Distribution(name, rv) with a name of more than two dot-separated
\* parts raises McsUserError and leaves the registry as it was, entry for
\* entry; with any other name it returns and the name is registered.
C26_MalformedNameLeavesRegistry == [][C26_DistributionStep]_vars

\* a Distribution call with a malformed name raised on a registry that held
\* an entry
C26_Witness ==
    /\ last.op = "Distribution" /\ last.err = "McsUserError"
    /\ Malformed(last.name)
    /\ instances # <<>>

----------------------------------------------------------------------------
(* C27 *)

\* C27: a Simulation.new that raises McsUserError because the path exists and
\* overwrite is not set, or because the model has no analysis of the name
\* given, leaves a directory that existed at the path with everything it
\* held: model file, metadata, trial data, results and failures.
C27_FailedNewStep ==
    ( /\ calls' = calls + 1 /\ last'.op = "new" /\ last'.err = "McsUserError"
      /\ \/ last'.existed /\ ~last'.overwrite
         \/ last'.analysis_name # AnalysisName
      /\ disk.exists )
    => disk' = disk

C27_FailedNewKeepsDirectory == [][C27_FailedNewStep]_vars

----------------------------------------------------------------------------
(* Model.save_results *)

\* a process or aggregator of a field, with its GHG emissions in tonne/day
Node(name, boundary, ghg) == [name |-> name, boundary |-> boundary, ghg |-> ghg]

\* a field that has been run: its energy flow at the boundary, its carbon
\* intensity, its top-level nodes (children()) and all its processes
\* (processes())
RunField(name, flow, ci, children, processes) ==
    [name |-> name, flow |-> flow, carbon_intensity |-> ci,
     children |-> children, processes |-> processes]

ResultFields ==
    { RunField("F1", 40, 120,
               <<Node("Production", FALSE, 8), Node("ProductionBoundary", TRUE, 0)>>,
               <<Node("Drilling", FALSE, 3), Node("Separation", FALSE, 5),
                 Node("ProductionBoundary", TRUE, 0)>>),
      RunField("F2", 0, 0,
               <<Node("Production", FALSE, 8), Node("ProductionBoundary", TRUE, 0)>>,
               <<Node("Drilling", FALSE, 8), Node("ProductionBoundary", TRUE, 0)>>),
      RunField("F3", 25, 90,
               <<Node("ProductionBoundary", TRUE, 0)>>,
               <<Node("ProductionBoundary", TRUE, 0)>>),
      RunField("F4", 0, 0, <<>>, <<>>) }

\* the (field, analysis) tuples save_results is given
ResultTuples ==
    UNION { [1..n -> {<<f, [name |-> AnalysisName]>> : f \in ResultFields}]
            : n \in 0..MaxPairs }

\* grams per MJ of one tonne per day over one MJ per day, in thousandths
GramsPerTonne == 1000

\* partial_ci_values that does not leave the boundary nodes out
partial_ci_valuesWithBoundaries(analysis, field, nodes) ==
    IF field.flow = 0 THEN None
    ELSE Some([i \in DOMAIN nodes |->
                 <<nodes[i].name, (nodes[i].ghg * GramsPerTonne) \div field.flow>>])

\* Model.partial_ci_values(analysis, field, nodes): None when the energy flow
\* at the boundary is zero (ZeroEnergyFlowError), otherwise (name, partial CI)
\* of every node that is not a Boundary
partial_ci_values(analysis, field, nodes) ==
    IF field.flow = 0 THEN None
    ELSE LET kept == SelectSeq(nodes, LAMBDA obj : ~obj.boundary)
         IN Some([i \in DOMAIN kept |->
                    <<kept[i].name, (kept[i].ghg * GramsPerTonne) \div field.flow>>])

\* one row of the CSV file
CsvRow(analysis, field, node, ci) ==
    [analysis |-> analysis, field |-> field, node |-> node, CI |-> ci]

\* Model.save_results(tuples, csvpath, by_process): the rows written
save_results(tuples, by_process) ==
    LET RECURSIVE loop(_, _)
        loop(i, rows) ==
            IF i > Len(tuples) THEN rows
            ELSE LET field == tuples[i][1]
                     analysis == tuples[i][2]
                     nodes == IF by_process THEN field.processes ELSE field.children
                     ci_tuples == partial_ci_values(analysis, field, nodes)
                     total == CsvRow(analysis.name, field.name, "TOTAL",
                                     field.carbon_intensity)
                 IN loop(i + 1,
                         Append(rows, total)
                         \o (IF ci_tuples # None
                             THEN [k \in DOMAIN Get(ci_tuples) |->
                                     CsvRow(analysis.name, field.name,
                                            Get(ci_tuples)[k][1], Get(ci_tuples)[k][2])]
                             ELSE <<>>))
    IN loop(1, <<>>)

\* nothing has been saved yet
InitSave ==
    /\ instances = <<>>
    /\ log = <<>>
    /\ model_files = XmlFree
    /\ rng = 0
    /\ disk = NoDisk
    /\ sim = None
    /\ rf = Idle
    /\ ra = NoRun
    /\ last = NoCall
    /\ calls = 0

\* model.save_results(tuples, csvpath, by_process)
SaveResultsCall ==
    /\ calls < MaxCalls
    /\ \E tuples \in ResultTuples, by_process \in BOOLEAN :
          last' = [NoCall EXCEPT !.op = "save_results", !.tuples = tuples,
                      !.by_process = by_process,
                      !.csv = Some(save_results(tuples, by_process))]
    /\ calls' = calls + 1
    /\ UNCHANGED <<instances, log, model_files, rng, disk, sim, rf, ra>>

NextSave == SaveResultsCall

SpecSave == InitSave /\ [][NextSave]_vars

----------------------------------------------------------------------------
(* C28 *)

\* how many elements of a sequence satisfy a test
CountOf(seq, Test(_)) == Cardinality({i \in DOMAIN seq : Test(seq[i])})

====
